---- MODULE Spec2Model ----
(***************************************************************************)
(* Retrospective backend: the status state machine (RetrospectiveService), *)
(* the voting engine (VotingService) and the in-memory stores they share.  *)
(*                                                                         *)
(* Every gRPC handler runs on its own goroutine.  A handler is modelled as *)
(* a process that moves through the handler's statements: one step per     *)
(* store call (each store call is atomic, it holds the store's mutex) and  *)
(* one step per read or write of a field of a *vstore.Retrospective, which *)
(* the handlers do on the shared pointer returned by Get, outside any lock.*)
(***************************************************************************)
EXTENDS Integers, Sequences, FiniteSets, TLC

\* ----------------------------------------------------------------- bounds
NumProcs == 2        \* handler goroutines that may run at the same time
MaxTime == 2         \* values the wall clock takes (1..MaxTime)
MaxVoteIds == 3      \* Vote records ever created in one run
MaxVoteCount == 5    \* the VoteCount of a card on a board to be ranked
MaxEvents == 3       \* presence events in one run
MaxBroadcasts == 2   \* events published to the streams in one run
MaxStreams == 2      \* Subscribe streams opened in one run
MaxItemIds == 2      \* cards created in one run
MaxParticipants == 3 \* entries of the browser's participants list

\* ------------------------------------------------------ program constants
RetrospectiveStatusDraft == 1
RetrospectiveStatusActive == 2
RetrospectiveStatusVoting == 3
RetrospectiveStatusDiscussing == 4
RetrospectiveStatusCompleted == 5
DefaultMaxVotesPerUser == 5

Statuses ==
    { RetrospectiveStatusDraft, RetrospectiveStatusActive,
      RetrospectiveStatusVoting, RetrospectiveStatusDiscussing,
      RetrospectiveStatusCompleted }

\* The user id every handler resolves from its context.
getUserIDFromContext == "mock-user-id"

\* ------------------------------------------------------------ identifiers
Procs == 1..NumProcs
RetroIds == {"r1"}                      \* ids Create hands out
ReqRetroIds == {"", "r1", "r2"}         \* retrospective_id of a request
ItemIds == {"i1", "i2", "i3"}
ReqItemIds == {"", "i1", "i2", "i3", "i4"}   \* item_id of a request
ZeroTime == 0                           \* time.Time{}
Transitions == {"StartVoting", "StartDiscussion", "Complete"}

\* Result kinds (part_004 errors; "OK" is a nil error).
Results ==
    { "OK", "NotFound", "AlreadyExists", "InvalidArgument",
      "VoteLimitExceeded", "InvalidStatus" }

VARIABLES
    now,          \* time.Now()
    retros,       \* InMemoryRetrospectiveStore.retros: id -> record
    items,        \* InMemoryItemStore.items: id -> record
    votes,        \* InMemoryVoteStore.votes: vote id -> record
    nextVoteId,   \* the next fresh VOTE-<nanoseconds> id
    nextItemId,   \* the next fresh ITEM-<nanoseconds> id
    broadcastLog, \* events handed to broadcaster.Broadcast, in call order
    pc,           \* per process: the statement it is at ("done" between calls)
    op,           \* per process: the handler of its current or last call
    req,          \* per process: the request of that call
    result,       \* per process: what its last call returned
    loc,          \* per process: the handler's local variables
    observe,      \* whether calls record the stores they started from
    pre,          \* per process: the stores when its current call started
    prev,         \* per process: the standing votes of its completed calls
    prior,        \* per process: the call before its current one
    response,     \* per process: the payload its call returned, if any
    tally,        \* per card: the counter updates the item store has applied
    participants, \* InMemoryParticipantStore.participants: key -> record
    subscribers,  \* EventBroadcaster.subscribers: id -> list of channels
    chans,        \* per Subscribe stream: its channel and where it is at
    client        \* useRetrospectiveStore: the browser's store

storeVars == <<retros, items, votes, nextVoteId, nextItemId>>
procVars == <<pc, op, req, result, loc, pre, prev, prior, response>>
realtimeVars == <<participants, subscribers, chans>>
vars == <<now, retros, items, votes, nextVoteId, nextItemId, broadcastLog,
          pc, op, req, result, loc, observe, pre, prev, prior, response,
          tally, participants, subscribers, chans, client>>

\* ---------------------------------------------------------------- helpers
NoReq == [retro |-> "", item |-> ""]
NoLoc ==
    [retro |-> "", vote |-> 0, n |-> 0, list |-> <<>>, voted |-> {},
     event |-> 0, k |-> 0, ret |-> ""]
NoSnap == [on |-> FALSE]
NoStanding == [i \in ItemIds |-> -1]
NoPrior == [on |-> FALSE]
FirstCall == [on |-> TRUE, op |-> "none"]
NoResponse == [kind |-> "none"]
NoTally == [on |-> FALSE]
ZeroTally ==
    [on |-> TRUE,
     inc |-> [i \in ItemIds |-> 0],         \* IncrementVoteCount calls applied
     dec |-> [i \in ItemIds |-> 0],         \* DecrementVoteCount calls applied
     floored |-> [i \in ItemIds |-> FALSE]] \* a decrement found the count at 0

\* The stores as a call finds them.
Snapshot ==
    IF observe
    THEN [on |-> TRUE, now |-> now, retros |-> retros, items |-> items,
          votes |-> votes, log |-> broadcastLog,
          participants |-> participants]
    ELSE NoSnap

\* What process p remembers of its completed calls when it starts the next
\* one: per card, the VoteCount the card had before the successful CastVote
\* that still stands (no RemoveVote was requested for the card since), and
\* -1 for a card without one.
LastCall(p) ==
    IF observe /\ op[p] # "none"
    THEN [i \in ItemIds |->
            IF req[p].item = i /\ op[p] = "RemoveVote" THEN -1
            ELSE IF /\ req[p].item = i
                    /\ op[p] = "CastVote"
                    /\ result[p] = "OK"
                    /\ prev[p][i] = -1
                 THEN pre[p].items[i].VoteCount
                 ELSE prev[p][i]]
    ELSE prev[p]

\* The call process p has just completed, as it stands when p starts the
\* next one: the handler, its request and result, and the stores it found.
\* Kept only by a process that starts out keeping it.
PriorCall(p) ==
    IF prior[p].on /\ observe /\ op[p] # "none"
    THEN [on |-> TRUE, op |-> op[p], req |-> req[p], result |-> result[p],
          retros |-> pre[p].retros, items |-> pre[p].items,
          votes |-> pre[p].votes]
    ELSE prior[p]

\* Process p enters handler o with request r and goes to statement l
\* with locals lc.
Enter(p, o, r, l, lc) ==
    /\ pc[p] = "done"
    /\ pc' = [pc EXCEPT ![p] = l]
    /\ op' = [op EXCEPT ![p] = o]
    /\ req' = [req EXCEPT ![p] = r]
    /\ loc' = [loc EXCEPT ![p] = lc]
    /\ result' = [result EXCEPT ![p] = "pending"]
    /\ pre' = [pre EXCEPT ![p] = Snapshot]
    /\ prev' = [prev EXCEPT ![p] = LastCall(p)]
    /\ prior' = [prior EXCEPT ![p] = PriorCall(p)]
    /\ response' = [response EXCEPT ![p] = NoResponse]

\* Process p enters handler o with request r and returns res at once.
EnterReturn(p, o, r, res) ==
    /\ pc[p] = "done"
    /\ pc' = pc
    /\ op' = [op EXCEPT ![p] = o]
    /\ req' = [req EXCEPT ![p] = r]
    /\ loc' = [loc EXCEPT ![p] = NoLoc]
    /\ result' = [result EXCEPT ![p] = res]
    /\ pre' = [pre EXCEPT ![p] = Snapshot]
    /\ prev' = [prev EXCEPT ![p] = LastCall(p)]
    /\ prior' = [prior EXCEPT ![p] = PriorCall(p)]
    /\ response' = [response EXCEPT ![p] = NoResponse]

\* Process p goes from its statement to statement l.
Goto(p, l) ==
    /\ pc' = [pc EXCEPT ![p] = l]
    /\ UNCHANGED <<op, req, result, loc, pre, prev, prior, response>>

\* Process p returns res.
Return(p, res) ==
    /\ pc' = [pc EXCEPT ![p] = "done"]
    /\ result' = [result EXCEPT ![p] = res]
    /\ UNCHANGED <<op, req, loc, pre, prev, prior, response>>

\* ------------------------------------------------- InMemoryRetrospectiveStore
\* Get: whether the id is in the map (the caller then holds the pointer).
RetroStoreHas(id) == id \in DOMAIN retros

\* Update: stamps Updated and stores the pointer under its id.
RetroStoreUpdate(id) ==
    retros' = [retros EXCEPT ![id].Updated = now]

\* A write of one field through the shared pointer.
SetStatus(id, s) ==
    retros' = [retros EXCEPT ![id].Status = s]

SetCompletedAt(id, t) ==
    retros' = [retros EXCEPT ![id].CompletedAt = t]

\* ------------------------------------------------------------ the wall clock
Tick ==
    /\ now < MaxTime
    /\ now' = now + 1
    /\ UNCHANGED <<storeVars, broadcastLog, procVars,
                   observe, client, realtimeVars, tally>>

\* --------------------------------------------------- RetrospectiveService
\* The voting configuration Create stores for a request.
VotingConfigOf(cfg) ==
    IF cfg.given
    THEN [MaxVotesPerUser |-> IF cfg.max > 0 THEN cfg.max
                              ELSE DefaultMaxVotesPerUser,
          AllowMultipleVotesPerItem |-> cfg.multi]
    ELSE [MaxVotesPerUser |-> DefaultMaxVotesPerUser,
          AllowMultipleVotesPerItem |-> FALSE]

\* req.VotingConfig: nil, or a config with max_votes_per_user 0..2.
ReqVotingConfigs ==
    { [given |-> FALSE, max |-> 0, multi |-> FALSE] } \cup
    [given : {TRUE}, max : 0..2, multi : BOOLEAN]

\* The record Create builds and stores.
NewRetrospective(cfg) ==
    [Status |-> RetrospectiveStatusDraft,
     VotingConfig |-> VotingConfigOf(cfg),
     ItemCount |-> 0, ParticipantCount |-> 0,
     CompletedAt |-> ZeroTime,
     Updated |-> now]

\* Create: validation, then a record in DRAFT under a fresh id.
Create(p) ==
    \E team \in {"", "t1"}, sprint \in {"", "s1"} :
        IF team = "" \/ sprint = ""
        THEN /\ EnterReturn(p, "Create", NoReq, "InvalidArgument")
             /\ UNCHANGED <<now, storeVars, broadcastLog,
                            observe, client, realtimeVars, tally>>
        ELSE \E cfg \in ReqVotingConfigs, id \in RetroIds \ DOMAIN retros :
             /\ EnterReturn(p, "Create", [retro |-> id, item |-> ""], "OK")
             /\ retros' = (id :> NewRetrospective(cfg)) @@ retros
             /\ UNCHANGED <<now, items, votes, nextVoteId, nextItemId,
                            broadcastLog,
                            observe, client, realtimeVars, tally>>

\* Update up to retroStore.Get, for a retrospective id in R and a request
\* whose retrospective carries a status in S.
UpdateGet(p, R, S) ==
    \E id \in R, s \in S :
        /\ IF id = ""
           THEN EnterReturn(p, "Update",
                            [retro |-> id, item |-> "", status |-> s],
                            "InvalidArgument")
           ELSE IF ~RetroStoreHas(id)
           THEN EnterReturn(p, "Update",
                            [retro |-> id, item |-> "", status |-> s],
                            "NotFound")
           ELSE Enter(p, "Update",
                      [retro |-> id, item |-> "", status |-> s],
                      "up_update", [NoLoc EXCEPT !.retro = id])
        /\ UNCHANGED <<now, storeVars, broadcastLog,
                       observe, client, realtimeVars, tally>>

\* The rest of Update: SprintName, Description and FacilitatorId are copied
\* from the request when they are given (fields the record here does not
\* keep), nothing else is, and the record is stored.
UpdateUpdate_AppliesStatus(p) ==
    /\ pc[p] = "up_update"
    /\ retros' = [retros EXCEPT ![req[p].retro].Status = req[p].status,
                                ![req[p].retro].Updated = now]
    /\ Return(p, "OK")
    /\ UNCHANGED <<now, items, votes, nextVoteId, nextItemId, broadcastLog,
                   observe, client, realtimeVars, tally>>

UpdateUpdate(p) ==
    /\ pc[p] = "up_update"
    /\ RetroStoreUpdate(req[p].retro)
    /\ Return(p, "OK")
    /\ UNCHANGED <<now, items, votes, nextVoteId, nextItemId, broadcastLog,
                   observe, client, realtimeVars, tally>>

UpdateOps(p, R, S) ==
    \/ UpdateGet(p, R, S)
    \/ UpdateUpdate(p)

\* The first statement of StartVoting, StartDiscussion and Complete:
\* retroStore.Get, NotFound when the id is not in the store.
TransitionGet(p, o, first, R) ==
    \E id \in R :
        /\ IF RetroStoreHas(id)
           THEN Enter(p, o, [retro |-> id, item |-> ""], first,
                      [NoLoc EXCEPT !.retro = id])
           ELSE EnterReturn(p, o, [retro |-> id, item |-> ""], "NotFound")
        /\ UNCHANGED <<now, storeVars, broadcastLog,
                       observe, client, realtimeVars, tally>>

StartVotingGet(p, R) == TransitionGet(p, "StartVoting", "sv_check1", R)

\* retro.Status != Active: the first read of the condition.
StartVotingCheck1(p) ==
    /\ pc[p] = "sv_check1"
    /\ IF retros[loc[p].retro].Status # RetrospectiveStatusActive
       THEN Goto(p, "sv_check2")
       ELSE Goto(p, "sv_set")
    /\ UNCHANGED <<now, storeVars, broadcastLog,
                   observe, client, realtimeVars, tally>>

\* StartVotingCheck2 with the second test left out: every status that is
\* not ACTIVE goes on to the write.
StartVotingCheck2_Untested(p) ==
    /\ pc[p] = "sv_check2"
    /\ Goto(p, "sv_set")
    /\ UNCHANGED <<now, storeVars, broadcastLog,
                   observe, client, realtimeVars, tally>>

\* && retro.Status != Draft: the second read of the condition.
StartVotingCheck2(p) ==
    /\ pc[p] = "sv_check2"
    /\ IF retros[loc[p].retro].Status # RetrospectiveStatusDraft
       THEN Return(p, "InvalidStatus")
       ELSE Goto(p, "sv_set")
    /\ UNCHANGED <<now, storeVars, broadcastLog,
                   observe, client, realtimeVars, tally>>

StartVotingSet(p) ==
    /\ pc[p] = "sv_set"
    /\ SetStatus(loc[p].retro, RetrospectiveStatusVoting)
    /\ Goto(p, "sv_update")
    /\ UNCHANGED <<now, items, votes, nextVoteId, nextItemId, broadcastLog,
                   observe, client, realtimeVars, tally>>

StartVotingUpdate(p) ==
    /\ pc[p] = "sv_update"
    /\ RetroStoreUpdate(loc[p].retro)
    /\ Return(p, "OK")
    /\ UNCHANGED <<now, items, votes, nextVoteId, nextItemId, broadcastLog,
                   observe, client, realtimeVars, tally>>

StartDiscussionGet(p, R) ==
    TransitionGet(p, "StartDiscussion", "sd_check", R)

\* StartDiscussionCheck refusing only a completed retrospective.
StartDiscussionCheck_Loose(p) ==
    /\ pc[p] = "sd_check"
    /\ IF retros[loc[p].retro].Status = RetrospectiveStatusCompleted
       THEN Return(p, "InvalidStatus")
       ELSE Goto(p, "sd_set")
    /\ UNCHANGED <<now, storeVars, broadcastLog,
                   observe, client, realtimeVars, tally>>

StartDiscussionCheck(p) ==
    /\ pc[p] = "sd_check"
    /\ IF retros[loc[p].retro].Status # RetrospectiveStatusVoting
       THEN Return(p, "InvalidStatus")
       ELSE Goto(p, "sd_set")
    /\ UNCHANGED <<now, storeVars, broadcastLog,
                   observe, client, realtimeVars, tally>>

StartDiscussionSet(p) ==
    /\ pc[p] = "sd_set"
    /\ SetStatus(loc[p].retro, RetrospectiveStatusDiscussing)
    /\ Goto(p, "sd_update")
    /\ UNCHANGED <<now, items, votes, nextVoteId, nextItemId, broadcastLog,
                   observe, client, realtimeVars, tally>>

StartDiscussionUpdate(p) ==
    /\ pc[p] = "sd_update"
    /\ RetroStoreUpdate(loc[p].retro)
    /\ Return(p, "OK")
    /\ UNCHANGED <<now, items, votes, nextVoteId, nextItemId, broadcastLog,
                   observe, client, realtimeVars, tally>>

\* Complete reads no status: Get is followed by the writes.
CompleteGet(p, R) == TransitionGet(p, "Complete", "co_set", R)

\* CompleteSet gated on the discussion phase.
CompleteSet_Gated(p) ==
    /\ pc[p] = "co_set"
    /\ IF retros[loc[p].retro].Status # RetrospectiveStatusDiscussing
       THEN retros' = retros /\ Return(p, "InvalidStatus")
       ELSE /\ SetStatus(loc[p].retro, RetrospectiveStatusCompleted)
            /\ Goto(p, "co_time")
    /\ UNCHANGED <<now, items, votes, nextVoteId, nextItemId, broadcastLog,
                   observe, client, realtimeVars, tally>>

CompleteSet(p) ==
    /\ pc[p] = "co_set"
    /\ SetStatus(loc[p].retro, RetrospectiveStatusCompleted)
    /\ Goto(p, "co_time")
    /\ UNCHANGED <<now, items, votes, nextVoteId, nextItemId, broadcastLog,
                   observe, client, realtimeVars, tally>>

CompleteTime(p) ==
    /\ pc[p] = "co_time"
    /\ SetCompletedAt(loc[p].retro, now)
    /\ Goto(p, "co_update")
    /\ UNCHANGED <<now, items, votes, nextVoteId, nextItemId, broadcastLog,
                   observe, client, realtimeVars, tally>>

CompleteUpdate(p) ==
    /\ pc[p] = "co_update"
    /\ RetroStoreUpdate(loc[p].retro)
    /\ Return(p, "OK")
    /\ UNCHANGED <<now, items, votes, nextVoteId, nextItemId, broadcastLog,
                   observe, client, realtimeVars, tally>>

StatusOps(p, R) ==
    \/ Create(p)
    \/ StartVotingGet(p, R)
    \/ StartVotingCheck1(p)
    \/ StartVotingCheck2(p)
    \/ StartVotingSet(p)
    \/ StartVotingUpdate(p)
    \/ StartDiscussionGet(p, R)
    \/ StartDiscussionCheck(p)
    \/ StartDiscussionSet(p)
    \/ StartDiscussionUpdate(p)
    \/ CompleteGet(p, R)
    \/ CompleteSet(p)
    \/ CompleteTime(p)
    \/ CompleteUpdate(p)

\* ------------------------------------------------------------ the stores
\* delete(m, k) on a Go map.
Without(f, k) == [x \in DOMAIN f \ {k} |-> f[x]]

\* InMemoryVoteStore.GetByUserAndItem: the votes that match; the store
\* returns the first one its map iteration meets, so any of them.
VotesByUserAndItem(retroID, itemID, userID) ==
    { v \in DOMAIN votes :
        /\ votes[v].RetrospectiveID = retroID
        /\ votes[v].ItemID = itemID
        /\ votes[v].UserID = userID }

\* InMemoryVoteStore.CountByUser.
CountByUser(retroID, userID) ==
    Cardinality({ v \in DOMAIN votes :
        votes[v].RetrospectiveID = retroID /\ votes[v].UserID = userID })

\* InMemoryItemStore.IncrementVoteCount on an item of the map.
IncrementVoteCount(itemID) ==
    items' = [items EXCEPT ![itemID].VoteCount = @ + 1]

\* DecrementVoteCount without the floor.
DecrementVoteCount_Unfloored(itemID) ==
    IF itemID \in DOMAIN items
    THEN items' = [items EXCEPT ![itemID].VoteCount = @ - 1]
    ELSE items' = items

\* DecrementVoteCount with the floor one too high.
DecrementVoteCount_FloorOne(itemID) ==
    IF itemID \in DOMAIN items
    THEN items' = [items EXCEPT ![itemID].VoteCount =
                        IF @ > 1 THEN @ - 1 ELSE @]
    ELSE items' = items

\* InMemoryItemStore.DecrementVoteCount: floored at 0, and nothing to do
\* (ErrNotFound, which RemoveVote drops) for an item not in the map.
DecrementVoteCount(itemID) ==
    IF itemID \in DOMAIN items
    THEN items' = [items EXCEPT ![itemID].VoteCount =
                        IF @ > 0 THEN @ - 1 ELSE @]
    ELSE items' = items

\* The tally after an IncrementVoteCount, and after a DecrementVoteCount,
\* that found the item in the map.
TallyIncrement(itemID) ==
    IF tally.on THEN [tally EXCEPT !.inc[itemID] = @ + 1] ELSE tally

TallyDecrement(itemID) ==
    IF tally.on /\ itemID \in DOMAIN items
    THEN [tally EXCEPT !.dec[itemID] = @ + 1,
                       !.floored[itemID] = @ \/ items[itemID].VoteCount = 0]
    ELSE tally

\* ------------------------------------------------------------ VotingService
\* CastVote up to retroStore.Get: the two required ids, then the lookup.
CastVoteGet(p, R, I) ==
    \E r \in R, i \in I :
        /\ IF r = "" \/ i = ""
           THEN EnterReturn(p, "CastVote", [retro |-> r, item |-> i],
                            "InvalidArgument")
           ELSE IF ~RetroStoreHas(r)
           THEN EnterReturn(p, "CastVote", [retro |-> r, item |-> i],
                            "NotFound")
           ELSE Enter(p, "CastVote", [retro |-> r, item |-> i], "cv_check1",
                      [NoLoc EXCEPT !.retro = r])
        /\ UNCHANGED <<now, storeVars, broadcastLog,
                       observe, client, realtimeVars, tally>>

\* retro.Status != Voting: the first read of the condition.
CastVoteCheck1(p) ==
    /\ pc[p] = "cv_check1"
    /\ IF retros[loc[p].retro].Status # RetrospectiveStatusVoting
       THEN Goto(p, "cv_check2")
       ELSE Goto(p, "cv_item")
    /\ UNCHANGED <<now, storeVars, broadcastLog,
                   observe, client, realtimeVars, tally>>

\* CastVoteCheck2 letting a DRAFT retrospective through as well.
CastVoteCheck2_Draft(p) ==
    /\ pc[p] = "cv_check2"
    /\ IF retros[loc[p].retro].Status \notin
            {RetrospectiveStatusActive, RetrospectiveStatusDraft}
       THEN Return(p, "InvalidStatus")
       ELSE Goto(p, "cv_item")
    /\ UNCHANGED <<now, storeVars, broadcastLog,
                   observe, client, realtimeVars, tally>>

\* && retro.Status != Active: the second read of the condition.
CastVoteCheck2(p) ==
    /\ pc[p] = "cv_check2"
    /\ IF retros[loc[p].retro].Status # RetrospectiveStatusActive
       THEN Return(p, "InvalidStatus")
       ELSE Goto(p, "cv_item")
    /\ UNCHANGED <<now, storeVars, broadcastLog,
                   observe, client, realtimeVars, tally>>

\* CastVoteItem counting the vote on a card before it finds that the card
\* belongs to another retrospective.
CastVoteItem_CountsFirst(p) ==
    /\ pc[p] = "cv_item"
    /\ IF req[p].item \notin DOMAIN items
       THEN items' = items /\ Return(p, "NotFound")
       ELSE IF items[req[p].item].RetrospectiveID # req[p].retro
       THEN IncrementVoteCount(req[p].item) /\ Return(p, "InvalidArgument")
       ELSE items' = items /\ Goto(p, "cv_existing")
    /\ UNCHANGED <<now, retros, votes, nextVoteId, nextItemId, broadcastLog,
                   observe, client, realtimeVars, tally>>

\* itemStore.Get, and the item's retrospective against the request's.
CastVoteItem(p) ==
    /\ pc[p] = "cv_item"
    /\ IF req[p].item \notin DOMAIN items
       THEN Return(p, "NotFound")
       ELSE IF items[req[p].item].RetrospectiveID # req[p].retro
       THEN Return(p, "InvalidArgument")
       ELSE Goto(p, "cv_existing")
    /\ UNCHANGED <<now, storeVars, broadcastLog,
                   observe, client, realtimeVars, tally>>

\* CastVoteExisting without the refusal of a second vote.
CastVoteExisting_Unchecked(p) ==
    /\ pc[p] = "cv_existing"
    /\ Goto(p, "cv_count")
    /\ UNCHANGED <<now, storeVars, broadcastLog,
                   observe, client, realtimeVars, tally>>

\* GetByUserAndItem, refused when a vote exists and multiple votes per
\* item are not allowed.
CastVoteExisting(p) ==
    /\ pc[p] = "cv_existing"
    /\ IF /\ VotesByUserAndItem(req[p].retro, req[p].item,
                                getUserIDFromContext) # {}
          /\ ~retros[loc[p].retro].VotingConfig.AllowMultipleVotesPerItem
       THEN Return(p, "AlreadyExists")
       ELSE Goto(p, "cv_count")
    /\ UNCHANGED <<now, storeVars, broadcastLog,
                   observe, client, realtimeVars, tally>>

\* CastVoteCount refusing only above the limit.
CastVoteCount_OffByOne(p) ==
    /\ pc[p] = "cv_count"
    /\ IF CountByUser(req[p].retro, getUserIDFromContext)
            > retros[loc[p].retro].VotingConfig.MaxVotesPerUser
       THEN Return(p, "VoteLimitExceeded")
       ELSE Goto(p, "cv_create")
    /\ UNCHANGED <<now, storeVars, broadcastLog,
                   observe, client, realtimeVars, tally>>

\* CountByUser against the configured limit.
CastVoteCount(p) ==
    /\ pc[p] = "cv_count"
    /\ IF CountByUser(req[p].retro, getUserIDFromContext)
            >= retros[loc[p].retro].VotingConfig.MaxVotesPerUser
       THEN Return(p, "VoteLimitExceeded")
       ELSE Goto(p, "cv_create")
    /\ UNCHANGED <<now, storeVars, broadcastLog,
                   observe, client, realtimeVars, tally>>

\* voteStore.Create under a fresh id.
CastVoteCreate(p) ==
    /\ pc[p] = "cv_create"
    /\ nextVoteId <= MaxVoteIds
    /\ votes' = (nextVoteId :> [RetrospectiveID |-> req[p].retro,
                                ItemID |-> req[p].item,
                                UserID |-> getUserIDFromContext]) @@ votes
    /\ nextVoteId' = nextVoteId + 1
    /\ pc' = [pc EXCEPT ![p] = "cv_incr"]
    /\ loc' = [loc EXCEPT ![p].vote = nextVoteId]
    /\ UNCHANGED <<now, retros, items, nextItemId, broadcastLog,
                   observe, client, realtimeVars, tally,
                   op, req, result, pre, prev, prior,
                   response>>

\* CastVoteIncrement adding one to the VoteCount it read in a step of its
\* own, outside the item store's lock.
CastVoteIncrement_Unlocked(p) ==
    /\ pc[p] = "cv_incr"
    /\ IF req[p].item \notin DOMAIN items
       THEN /\ Goto(p, "cv_rollback")
            /\ UNCHANGED <<items, tally>>
       ELSE IF loc[p].n = 0
       THEN /\ loc' = [loc EXCEPT ![p].n = items[req[p].item].VoteCount + 1]
            /\ UNCHANGED <<items, tally, pc, op, req, result, pre, prev,
                           prior, response>>
       ELSE /\ items' = [items EXCEPT ![req[p].item].VoteCount = loc[p].n]
            /\ tally' = TallyIncrement(req[p].item)
            /\ Return(p, "OK")
    /\ UNCHANGED <<now, retros, votes, nextVoteId, nextItemId, broadcastLog,
                   observe, client, realtimeVars>>

\* itemStore.IncrementVoteCount; ErrNotFound leads to the rollback.
CastVoteIncrement(p) ==
    /\ pc[p] = "cv_incr"
    /\ IF req[p].item \in DOMAIN items
       THEN /\ IncrementVoteCount(req[p].item)
            /\ tally' = TallyIncrement(req[p].item)
            /\ Return(p, "OK")
       ELSE /\ UNCHANGED <<items, tally>>
            /\ Goto(p, "cv_rollback")
    /\ UNCHANGED <<now, retros, votes, nextVoteId, nextItemId, broadcastLog,
                   observe, client, realtimeVars>>

\* CastVoteRollback returning the error without the compensating delete.
CastVoteRollback_NoDelete(p) ==
    /\ pc[p] = "cv_rollback"
    /\ votes' = votes
    /\ Return(p, "NotFound")
    /\ UNCHANGED <<now, retros, items, nextVoteId, nextItemId, broadcastLog,
                   observe, client, realtimeVars, tally>>

\* The rollback: voteStore.Delete of the vote just created.
CastVoteRollback(p) ==
    /\ pc[p] = "cv_rollback"
    /\ votes' = Without(votes, loc[p].vote)
    /\ Return(p, "NotFound")
    /\ UNCHANGED <<now, retros, items, nextVoteId, nextItemId, broadcastLog,
                   observe, client, realtimeVars, tally>>

\* RemoveVoteGet decrementing the card's counter before it looks for the
\* vote.
RemoveVoteGet_DecrementsFirst(p, R, I) ==
    \E r \in R, i \in I :
        /\ IF r = "" \/ i = ""
           THEN /\ EnterReturn(p, "RemoveVote", [retro |-> r, item |-> i],
                               "InvalidArgument")
                /\ items' = items
           ELSE IF VotesByUserAndItem(r, i, getUserIDFromContext) = {}
           THEN /\ EnterReturn(p, "RemoveVote", [retro |-> r, item |-> i],
                               "NotFound")
                /\ DecrementVoteCount(i)
           ELSE /\ \E v \in VotesByUserAndItem(r, i, getUserIDFromContext) :
                     Enter(p, "RemoveVote", [retro |-> r, item |-> i],
                           "rv_delete", [NoLoc EXCEPT !.vote = v])
                /\ items' = items
        /\ UNCHANGED <<now, retros, votes, nextVoteId, nextItemId,
                       broadcastLog,
                       observe, client, realtimeVars,
                       tally>>

\* RemoveVote up to GetByUserAndItem.
RemoveVoteGet(p, R, I) ==
    \E r \in R, i \in I :
        /\ IF r = "" \/ i = ""
           THEN EnterReturn(p, "RemoveVote", [retro |-> r, item |-> i],
                            "InvalidArgument")
           ELSE IF VotesByUserAndItem(r, i, getUserIDFromContext) = {}
           THEN EnterReturn(p, "RemoveVote", [retro |-> r, item |-> i],
                            "NotFound")
           ELSE \E v \in VotesByUserAndItem(r, i, getUserIDFromContext) :
                Enter(p, "RemoveVote", [retro |-> r, item |-> i],
                      "rv_delete", [NoLoc EXCEPT !.vote = v])
        /\ UNCHANGED <<now, storeVars, broadcastLog,
                       observe, client, realtimeVars, tally>>

RemoveVoteDelete(p) ==
    /\ pc[p] = "rv_delete"
    /\ votes' = Without(votes, loc[p].vote)
    /\ Goto(p, "rv_decr")
    /\ UNCHANGED <<now, retros, items, nextVoteId, nextItemId, broadcastLog,
                   observe, client, realtimeVars, tally>>

RemoveVoteDecrement(p) ==
    /\ pc[p] = "rv_decr"
    /\ DecrementVoteCount(req[p].item)
    /\ tally' = TallyDecrement(req[p].item)
    /\ Return(p, "OK")
    /\ UNCHANGED <<now, retros, votes, nextVoteId, nextItemId, broadcastLog,
                   observe, client, realtimeVars>>

\* GetUserVotes on retrospectives rs and Vote records vs: the votes of the
\* user (the caller when the request names none) in the retrospective, and
\* what is left of the retrospective's MaxVotesPerUser, floored at 0.
\* VotedItemIds has one entry per vote, in the order the store's map yields
\* them: it is kept as the number of entries per card.
GetUserVotes_Unfloored(rs, vs, retroID, userID) ==
    LET user == IF userID = "" THEN getUserIDFromContext ELSE userID
        mine == { v \in DOMAIN vs :
                    vs[v].RetrospectiveID = retroID /\ vs[v].UserID = user }
        votesCast == Cardinality(mine)
    IN  IF retroID = "" THEN [kind |-> "InvalidArgument"]
        ELSE IF retroID \notin DOMAIN rs THEN [kind |-> "NotFound"]
        ELSE [kind |-> "OK",
              UserId |-> user,
              VotesCast |-> votesCast,
              VotesRemaining |->
                  rs[retroID].VotingConfig.MaxVotesPerUser - votesCast,
              VotedItemIds |->
                  [i \in { vs[v].ItemID : v \in mine } |->
                      Cardinality({ v \in mine : vs[v].ItemID = i })]]

GetUserVotes(rs, vs, retroID, userID) ==
    LET user == IF userID = "" THEN getUserIDFromContext ELSE userID
        mine == { v \in DOMAIN vs :
                    vs[v].RetrospectiveID = retroID /\ vs[v].UserID = user }
        votesCast == Cardinality(mine)
        left == rs[retroID].VotingConfig.MaxVotesPerUser - votesCast
    IN  IF retroID = "" THEN [kind |-> "InvalidArgument"]
        ELSE IF retroID \notin DOMAIN rs THEN [kind |-> "NotFound"]
        ELSE [kind |-> "OK",
              UserId |-> user,
              VotesCast |-> votesCast,
              VotesRemaining |-> IF left < 0 THEN 0 ELSE left,
              VotedItemIds |->
                  [i \in { vs[v].ItemID : v \in mine } |->
                      Cardinality({ v \in mine : vs[v].ItemID = i })]]

\* The GetUserVotes handler: the request names a retrospective in R and a
\* user in U ("" for the caller).
GetUserVotesGet(p, R, U) ==
    \E r \in R, u \in U :
        /\ IF r = ""
           THEN EnterReturn(p, "GetUserVotes",
                            [retro |-> r, item |-> "", user |-> u],
                            "InvalidArgument")
           ELSE IF ~RetroStoreHas(r)
           THEN EnterReturn(p, "GetUserVotes",
                            [retro |-> r, item |-> "", user |-> u],
                            "NotFound")
           ELSE Enter(p, "GetUserVotes",
                      [retro |-> r, item |-> "", user |-> u],
                      "guv_list", [NoLoc EXCEPT !.retro = r])
        /\ UNCHANGED <<now, storeVars, broadcastLog,
                       observe, client, realtimeVars, tally>>

\* ListByUser, and the response built from it and the retrospective held.
GetUserVotesList(p) ==
    /\ pc[p] = "guv_list"
    /\ pc' = [pc EXCEPT ![p] = "done"]
    /\ result' = [result EXCEPT ![p] = "OK"]
    /\ response' = [response EXCEPT ![p] =
            GetUserVotes(retros, votes, loc[p].retro, req[p].user)]
    /\ UNCHANGED <<op, req, loc, pre, prev, prior>>
    /\ UNCHANGED <<now, storeVars, broadcastLog,
                   observe, client, realtimeVars, tally>>

GetUserVotesOps(p, R, U) ==
    \/ GetUserVotesGet(p, R, U)
    \/ GetUserVotesList(p)

\* The orders in which a range over a Go map may meet the keys S.
Orderings(S) ==
    { o \in [1..Cardinality(S) -> S] :
        \A a, b \in 1..Cardinality(S) : a # b => o[a] # o[b] }

\* sort.Slice(itemVotes, voteCount descending): the entries of itemVotes in
\* an order in which no entry has fewer votes than the next.  The sort is
\* not stable, so entries with equal counts come out in any order.
SortedByVotes(itemVotes) ==
    { [k \in 1..Len(itemVotes) |-> itemVotes[o[k]]] :
        o \in { o \in Orderings(1..Len(itemVotes)) :
                  \A k \in 1..(Len(itemVotes) - 1) :
                      itemVotes[o[k]].voteCount
                          >= itemVotes[o[k + 1]].voteCount } }

\* The rank loop counting tie groups instead of positions (1-1-2).
RECURSIVE RankLoop_Dense(_, _, _, _, _)
RankLoop_Dense(itemVotes, i, currentRank, lastVoteCount, rankMap) ==
    IF i > Len(itemVotes) THEN rankMap
    ELSE LET iv == itemVotes[i]
             rank == IF iv.voteCount # lastVoteCount
                     THEN (IF i = 1 THEN 1 ELSE currentRank + 1)
                     ELSE currentRank
         IN  RankLoop_Dense(itemVotes, i + 1, rank, iv.voteCount,
                            (iv.itemID :> rank) @@ rankMap)

\* The rank loop of GetVoteSummary from entry i (1-based) on: a count that
\* differs from the last one takes its position as the rank.
RECURSIVE RankLoop(_, _, _, _, _)
RankLoop(itemVotes, i, currentRank, lastVoteCount, rankMap) ==
    IF i > Len(itemVotes) THEN rankMap
    ELSE LET iv == itemVotes[i]
             rank == IF iv.voteCount # lastVoteCount
                     THEN i
                     ELSE currentRank
         IN  RankLoop(itemVotes, i + 1, rank, iv.voteCount,
                      (iv.itemID :> rank) @@ rankMap)

\* totalVotes += item.VoteCount over the listed items.
RECURSIVE TotalVotes(_)
TotalVotes(list) ==
    IF list = <<>> THEN 0
    ELSE items[Head(list)].VoteCount + TotalVotes(Tail(list))

\* GetVoteSummary up to itemStore.ListByRetrospective: the cards of the
\* retrospective in the order the store's map gives them.
GetVoteSummaryList(p, R) ==
    \E r \in R :
        /\ IF r = ""
           THEN EnterReturn(p, "GetVoteSummary", [retro |-> r, item |-> ""],
                            "InvalidArgument")
           ELSE \E o \in Orderings({ i \in DOMAIN items :
                                       items[i].RetrospectiveID = r }) :
                  Enter(p, "GetVoteSummary", [retro |-> r, item |-> ""],
                        "gs_votes", [NoLoc EXCEPT !.retro = r, !.list = o])
        /\ UNCHANGED <<now, storeVars, broadcastLog,
                       observe, client, realtimeVars, tally>>

\* voteStore.ListByUser: the cards the caller has a vote on.
GetVoteSummaryVotes(p) ==
    /\ pc[p] = "gs_votes"
    /\ pc' = [pc EXCEPT ![p] = "gs_rank"]
    /\ loc' = [loc EXCEPT ![p].voted =
                 { votes[v].ItemID : v \in
                     { v \in DOMAIN votes :
                         /\ votes[v].RetrospectiveID = req[p].retro
                         /\ votes[v].UserID = getUserIDFromContext } }]
    /\ UNCHANGED <<now, storeVars, broadcastLog,
                   observe, client, realtimeVars, tally,
                   op, req, result, pre, prev, prior, response>>

\* The counts of the listed cards, sorted; the rank map; the response in
\* the order of the listing.
GetVoteSummaryRank(p) ==
    /\ pc[p] = "gs_rank"
    /\ LET list == loc[p].list
           itemVotes == [k \in 1..Len(list) |->
                            [itemID |-> list[k],
                             voteCount |-> items[list[k]].VoteCount]]
       IN  \E sorted \in SortedByVotes(itemVotes) :
             LET rankMap == RankLoop(sorted, 1, 1, -1, <<>>)
             IN  response' = [response EXCEPT ![p] =
                    [kind |-> "VoteSummary",
                     Summaries |-> [k \in 1..Len(list) |->
                        [ItemId |-> list[k],
                         VoteCount |-> items[list[k]].VoteCount,
                         Rank |-> rankMap[list[k]],
                         CurrentUserVoted |-> list[k] \in loc[p].voted]],
                     TotalVotes |-> TotalVotes(list)]]
    /\ pc' = [pc EXCEPT ![p] = "done"]
    /\ result' = [result EXCEPT ![p] = "OK"]
    /\ UNCHANGED <<now, storeVars, broadcastLog,
                   observe, client, realtimeVars, tally,
                   op, req, loc, pre, prev, prior>>

GetVoteSummaryOps(p, R) ==
    \/ GetVoteSummaryList(p, R)
    \/ GetVoteSummaryVotes(p)
    \/ GetVoteSummaryRank(p)

\* CastVote without its rollback, which needs the item to be deleted
\* between two statements of the call.
CastVoteOps(p, R, I) ==
    \/ CastVoteGet(p, R, I)
    \/ CastVoteCheck1(p)
    \/ CastVoteCheck2(p)
    \/ CastVoteItem(p)
    \/ CastVoteExisting(p)
    \/ CastVoteCount(p)
    \/ CastVoteCreate(p)
    \/ CastVoteIncrement(p)

RemoveVoteOps(p, R, I) ==
    \/ RemoveVoteGet(p, R, I)
    \/ RemoveVoteDelete(p)
    \/ RemoveVoteDecrement(p)

\* ------------------------------------------------ RetrospectiveItemService
\* getDefaultTemplateColumns: the column ids of a retrospective created
\* from the default template.
TemplateColumns == {"went_well", "to_improve", "action_items"}

\* fmt.Sprintf("ITEM-%d", time.Now().UnixNano()): the id of the next card.
NewItemId == "ITEM-" \o ToString(nextItemId)

\* Create up to the check of the column: the required fields, the lookup of
\* the retrospective, the column among the template's.  The position the
\* handler computes next is not kept in the card's record here.
ItemCreateGet(p, R, C, T) ==
    \E r \in R, c \in C, t \in T :
        /\ IF r = "" \/ c = "" \/ t = ""
           THEN EnterReturn(p, "ItemCreate",
                            [retro |-> r, item |-> "", column |-> c],
                            "InvalidArgument")
           ELSE IF ~RetroStoreHas(r)
           THEN EnterReturn(p, "ItemCreate",
                            [retro |-> r, item |-> "", column |-> c],
                            "NotFound")
           ELSE IF c \notin TemplateColumns
           THEN EnterReturn(p, "ItemCreate",
                            [retro |-> r, item |-> "", column |-> c],
                            "InvalidArgument")
           ELSE Enter(p, "ItemCreate",
                      [retro |-> r, item |-> "", column |-> c],
                      "ic_create", [NoLoc EXCEPT !.retro = r])
        /\ UNCHANGED <<now, storeVars, broadcastLog,
                       observe, client, realtimeVars, tally>>

\* itemStore.Create(item)
ItemCreateCreate(p) ==
    /\ pc[p] = "ic_create"
    /\ nextItemId <= MaxItemIds
    /\ items' = (NewItemId :> [RetrospectiveID |-> req[p].retro,
                               VoteCount |-> 0]) @@ items
    /\ nextItemId' = nextItemId + 1
    /\ Goto(p, "ic_read")
    /\ UNCHANGED <<now, retros, votes, nextVoteId, broadcastLog,
                   observe, client, realtimeVars, tally>>

\* retro.ItemCount++ on the pointer Get returned, outside any lock: the
\* read ...
ItemCreateRead(p) ==
    /\ pc[p] = "ic_read"
    /\ pc' = [pc EXCEPT ![p] = "ic_write"]
    /\ loc' = [loc EXCEPT ![p].n = retros[loc[p].retro].ItemCount]
    /\ UNCHANGED <<now, storeVars, broadcastLog,
                   observe, client, realtimeVars, tally,
                   op, req, result, pre, prev, prior,
                   response>>

\* ... and the write.
ItemCreateWrite(p) ==
    /\ pc[p] = "ic_write"
    /\ retros' = [retros EXCEPT ![loc[p].retro].ItemCount = loc[p].n + 1]
    /\ Goto(p, "ic_update")
    /\ UNCHANGED <<now, items, votes, nextVoteId, nextItemId, broadcastLog,
                   observe, client, realtimeVars, tally>>

ItemCreateUpdate(p) ==
    /\ pc[p] = "ic_update"
    /\ RetroStoreUpdate(loc[p].retro)
    /\ Return(p, "OK")
    /\ UNCHANGED <<now, items, votes, nextVoteId, nextItemId, broadcastLog,
                   observe, client, realtimeVars, tally>>

ItemCreateOps(p, R, C, T) ==
    \/ ItemCreateGet(p, R, C, T)
    \/ ItemCreateCreate(p)
    \/ ItemCreateRead(p)
    \/ ItemCreateWrite(p)
    \/ ItemCreateUpdate(p)

\* Delete up to the check of the item's retrospective.
ItemDeleteGet(p, R, I) ==
    \E r \in R, i \in I :
        /\ IF i = ""
           THEN EnterReturn(p, "ItemDelete", [retro |-> r, item |-> i],
                            "InvalidArgument")
           ELSE IF i \notin DOMAIN items
           THEN EnterReturn(p, "ItemDelete", [retro |-> r, item |-> i],
                            "NotFound")
           ELSE IF r # "" /\ items[i].RetrospectiveID # r
           THEN EnterReturn(p, "ItemDelete", [retro |-> r, item |-> i],
                            "InvalidArgument")
           ELSE Enter(p, "ItemDelete", [retro |-> r, item |-> i],
                      "id_delete",
                      [NoLoc EXCEPT !.retro = items[i].RetrospectiveID])
        /\ UNCHANGED <<now, storeVars, broadcastLog,
                       observe, client, realtimeVars, tally>>

ItemDeleteDelete(p) ==
    /\ pc[p] = "id_delete"
    /\ items' = Without(items, req[p].item)
    /\ Goto(p, "id_retro")
    /\ UNCHANGED <<now, retros, votes, nextVoteId, nextItemId, broadcastLog,
                   observe, client, realtimeVars, tally>>

\* retroStore.Get of the item's retrospective; nothing more without it.
ItemDeleteRetro(p) ==
    /\ pc[p] = "id_retro"
    /\ IF RetroStoreHas(loc[p].retro)
       THEN Goto(p, "id_read")
       ELSE Return(p, "OK")
    /\ UNCHANGED <<now, storeVars, broadcastLog,
                   observe, client, realtimeVars, tally>>

\* retro.ItemCount--: the read ...
ItemDeleteRead(p) ==
    /\ pc[p] = "id_read"
    /\ pc' = [pc EXCEPT ![p] = "id_write"]
    /\ loc' = [loc EXCEPT ![p].n = retros[loc[p].retro].ItemCount]
    /\ UNCHANGED <<now, storeVars, broadcastLog,
                   observe, client, realtimeVars, tally,
                   op, req, result, pre, prev, prior,
                   response>>

\* ... and the write.
ItemDeleteWrite(p) ==
    /\ pc[p] = "id_write"
    /\ retros' = [retros EXCEPT ![loc[p].retro].ItemCount = loc[p].n - 1]
    /\ Goto(p, "id_update")
    /\ UNCHANGED <<now, items, votes, nextVoteId, nextItemId, broadcastLog,
                   observe, client, realtimeVars, tally>>

ItemDeleteUpdate(p) ==
    /\ pc[p] = "id_update"
    /\ RetroStoreUpdate(loc[p].retro)
    /\ Return(p, "OK")
    /\ UNCHANGED <<now, items, votes, nextVoteId, nextItemId, broadcastLog,
                   observe, client, realtimeVars, tally>>

ItemDeleteOps(p, R, I) ==
    \/ ItemDeleteGet(p, R, I)
    \/ ItemDeleteDelete(p)
    \/ ItemDeleteRetro(p)
    \/ ItemDeleteRead(p)
    \/ ItemDeleteWrite(p)
    \/ ItemDeleteUpdate(p)

\* ---------------------------------------------------------- EventBroadcaster
\* make(chan *pb.RetrospectiveEvent, 100): the capacity of a subscriber's
\* queue.
SubscriberQueueCapacity == 100

\* b.subscribers[retroID]: the channels registered for the id, oldest first.
SubscribersOf(r) ==
    IF r \in DOMAIN subscribers THEN subscribers[r] ELSE <<>>

\* The events whose Broadcast holds the read lock: called, not yet returned.
InFlight == { loc[q].event : q \in { q \in Procs : pc[q] = "bc_send" } }

\* Broadcast is called with an event for retrospective r: the log of the
\* calls, each entry with the events in flight at the call, the channels
\* registered during it, and the channels its sends found full.
BroadcastLogged(r, type, user, count) ==
    Append(broadcastLog,
           [type |-> type, retro |-> r, user |-> user, count |-> count,
            open |-> InFlight, subs |-> SubscribersOf(r), full |-> {}])

\* Process p, at statement l, calls Broadcast and will resume at ret: it
\* takes the read lock and starts the loop over the channels.
BroadcastCall(p, l, r, type, user, count, ret) ==
    /\ pc[p] = l
    /\ broadcastLog' = BroadcastLogged(r, type, user, count)
    /\ pc' = [pc EXCEPT ![p] = "bc_send"]
    /\ loc' = [loc EXCEPT ![p].retro = r,
                          ![p].event = Len(broadcastLog) + 1,
                          ![p].k = 1,
                          ![p].ret = ret]
    /\ UNCHANGED <<op, req, result, pre, prev, prior, response>>
    /\ UNCHANGED <<now, storeVars, observe, client, realtimeVars, tally>>

\* select { case ch <- event: default: }: the send happens if the buffer has
\* room, else the event is skipped for this channel.
BroadcastSend_Blocking(p) ==
    /\ pc[p] = "bc_send"
    /\ loc[p].k <= Len(SubscribersOf(loc[p].retro))
    /\ LET c == SubscribersOf(loc[p].retro)[loc[p].k]
       IN  /\ Len(chans[c].queue) < SubscriberQueueCapacity
           /\ chans' = [chans EXCEPT ![c].queue = Append(@, loc[p].event)]
           /\ broadcastLog' = [broadcastLog EXCEPT ![loc[p].event].full =
                 IF Len(chans[c].queue) >= SubscriberQueueCapacity
                 THEN @ \cup {c} ELSE @]
    /\ loc' = [loc EXCEPT ![p].k = @ + 1]
    /\ UNCHANGED <<pc, op, req, result, pre, prev, prior, response>>
    /\ UNCHANGED <<now, storeVars,
                   observe, client, participants, subscribers, tally>>

BroadcastSend_AllChannels(p) ==
    /\ pc[p] = "bc_send"
    /\ loc[p].k <= Len(SubscribersOf(loc[p].retro))
    /\ LET c == SubscribersOf(loc[p].retro)[loc[p].k]
       IN  /\ chans' = [d \in DOMAIN chans |->
                  IF /\ (d = c \/ chans[d].pc \in {"recv", "send", "unsub"})
                     /\ Len(chans[d].queue) < SubscriberQueueCapacity
                  THEN [chans[d] EXCEPT !.queue = Append(@, loc[p].event)]
                  ELSE chans[d]]
           /\ broadcastLog' = [broadcastLog EXCEPT ![loc[p].event].full =
                 IF Len(chans[c].queue) >= SubscriberQueueCapacity
                 THEN @ \cup {c} ELSE @]
    /\ loc' = [loc EXCEPT ![p].k = @ + 1]
    /\ UNCHANGED <<pc, op, req, result, pre, prev, prior, response>>
    /\ UNCHANGED <<now, storeVars,
                   observe, client, participants, subscribers, tally>>

BroadcastSend_Unbounded(p) ==
    /\ pc[p] = "bc_send"
    /\ loc[p].k <= Len(SubscribersOf(loc[p].retro))
    /\ LET c == SubscribersOf(loc[p].retro)[loc[p].k]
       IN  /\ chans' = [chans EXCEPT ![c].queue = Append(@, loc[p].event)]
           /\ UNCHANGED broadcastLog
    /\ loc' = [loc EXCEPT ![p].k = @ + 1]
    /\ UNCHANGED <<pc, op, req, result, pre, prev, prior, response>>
    /\ UNCHANGED <<now, storeVars,
                   observe, client, participants, subscribers, tally>>

BroadcastSend(p) ==
    /\ pc[p] = "bc_send"
    /\ loc[p].k <= Len(SubscribersOf(loc[p].retro))
    /\ LET c == SubscribersOf(loc[p].retro)[loc[p].k]
       IN  /\ chans' = IF Len(chans[c].queue) < SubscriberQueueCapacity
                       THEN [chans EXCEPT
                               ![c].queue = Append(@, loc[p].event)]
                       ELSE chans
           /\ broadcastLog' = [broadcastLog EXCEPT ![loc[p].event].full =
                 IF Len(chans[c].queue) >= SubscriberQueueCapacity
                 THEN @ \cup {c} ELSE @]
    /\ loc' = [loc EXCEPT ![p].k = @ + 1]
    /\ UNCHANGED <<pc, op, req, result, pre, prev, prior, response>>
    /\ UNCHANGED <<now, storeVars,
                   observe, client, participants, subscribers, tally>>

\* The loop is over: the read lock is released and the caller resumes.
BroadcastReturn(p) ==
    /\ pc[p] = "bc_send"
    /\ loc[p].k > Len(SubscribersOf(loc[p].retro))
    /\ pc' = [pc EXCEPT ![p] = loc[p].ret]
    /\ result' = [result EXCEPT ![p] =
                    IF loc[p].ret = "done" THEN "OK" ELSE @]
    /\ UNCHANGED <<op, req, loc, pre, prev, prior, response>>
    /\ UNCHANGED <<now, storeVars, broadcastLog, observe, client, realtimeVars,
                   tally>>

\* A caller that only publishes an event for a retrospective id in R (the
\* helpers BroadcastItemCreated, BroadcastItemUpdated, BroadcastItemDeleted),
\* as long as fewer than limit events have been published.
BroadcastItemEvent(p, R, limit) ==
    \E r \in R :
        /\ op' = [op EXCEPT ![p] = "Broadcast"]
        /\ req' = [req EXCEPT ![p] = [retro |-> r, item |-> ""]]
        /\ result' = [result EXCEPT ![p] = "pending"]
        /\ pc[p] = "done"
        /\ Len(broadcastLog) < limit
        /\ broadcastLog' = BroadcastLogged(r, "ItemCreated", "", 0)
        /\ pc' = [pc EXCEPT ![p] = "bc_send"]
        /\ loc' = [loc EXCEPT ![p] =
                     [NoLoc EXCEPT !.retro = r,
                                   !.event = Len(broadcastLog) + 1,
                                   !.k = 1,
                                   !.ret = "done"]]
        /\ UNCHANGED <<pre, prev, prior, response>>
        /\ UNCHANGED <<now, storeVars, observe, client, realtimeVars, tally>>

BroadcastOps(p, R, limit) ==
    \/ BroadcastItemEvent(p, R, limit)
    \/ BroadcastSend(p)
    \/ BroadcastReturn(p)

\* ------------------------------------------- RealtimeService.Subscribe
\* A Subscribe stream that has not been opened.  Streams are numbered in the
\* order they are opened; each has the channel it is given, by the same
\* number.  got is what it has taken off its channel, stamp the number of
\* events published when its Unsubscribe returned, closes the number of
\* times close(ch) was executed on its channel.
NoStream ==
    [pc |-> "idle", retro |-> "", result |-> "none", queue |-> <<>>,
     closed |-> FALSE, got |-> <<>>, stamp |-> 0, closes |-> 0]

\* Stream c is opened for a retrospective id in R: the id is validated and
\* looked up, and ch := broadcaster.Subscribe(id) registers a new channel
\* under the write lock, which waits for the Broadcasts in flight.  The
\* lookup reads the retrospective store only, which no step of the
\* broadcaster writes: it is taken in the step of the registration.
StreamSubscribe(c, R) ==
    \E r \in R :
        /\ c \in DOMAIN chans
        /\ chans[c].pc = "idle"
        /\ \A d \in DOMAIN chans : d < c => chans[d].pc # "idle"
        /\ IF r = ""
           THEN /\ chans' = [chans EXCEPT ![c].pc = "ended",
                                          ![c].result = "InvalidArgument"]
                /\ UNCHANGED subscribers
           ELSE IF ~RetroStoreHas(r)
           THEN /\ chans' = [chans EXCEPT ![c].pc = "ended",
                                          ![c].result = "NotFound"]
                /\ UNCHANGED subscribers
           ELSE /\ InFlight = {}
                /\ subscribers' = (r :> Append(SubscribersOf(r), c))
                                  @@ subscribers
                /\ chans' = [chans EXCEPT ![c].pc = "recv", ![c].retro = r]
        /\ UNCHANGED <<now, storeVars, broadcastLog, procVars, observe, client,
                       participants, tally>>

\* case event, ok := <-ch, and stream.Send(event), which succeeds or fails.
StreamRecv_Newest(c) ==
    /\ c \in DOMAIN chans
    /\ chans[c].pc = "recv"
    /\ chans[c].queue # <<>>
    /\ \E sent \in BOOLEAN :
          chans' = [chans EXCEPT ![c] =
              [@ EXCEPT !.queue = SubSeq(@, 1, Len(@) - 1),
                        !.got = Append(@, chans[c].queue[Len(chans[c].queue)]),
                        !.pc = IF sent THEN "recv" ELSE "unsub"]]
    /\ UNCHANGED <<now, storeVars, broadcastLog, procVars, observe, client,
                   participants, subscribers, tally>>

StreamRecv(c) ==
    /\ c \in DOMAIN chans
    /\ chans[c].pc = "recv"
    /\ chans[c].queue # <<>>
    /\ \E sent \in BOOLEAN :
          chans' = [chans EXCEPT ![c] =
              [@ EXCEPT !.queue = Tail(@),
                        !.got = Append(@, Head(chans[c].queue)),
                        !.pc = IF sent THEN "recv" ELSE "unsub"]]
    /\ UNCHANGED <<now, storeVars, broadcastLog, procVars, observe, client,
                   participants, subscribers, tally>>

\* case <-stream.Context().Done(): the client has gone.
StreamDone(c) ==
    /\ c \in DOMAIN chans
    /\ chans[c].pc = "recv"
    /\ chans' = [chans EXCEPT ![c].pc = "unsub"]
    /\ UNCHANGED <<now, storeVars, broadcastLog, procVars, observe, client,
                   participants, subscribers, tally>>

\* The list with the first occurrence of c taken out, the rest in order.
RECURSIVE RemoveChannel(_, _)
RemoveChannel(subs, c) ==
    IF subs = <<>> THEN <<>>
    ELSE IF Head(subs) = c THEN Tail(subs)
    ELSE <<Head(subs)>> \o RemoveChannel(Tail(subs), c)

\* for i, sub := range subs { if sub == ch ... }: channel c is on the list
\* of retrospective r.
IsSubscribed(r, c) ==
    \E i \in DOMAIN SubscribersOf(r) : SubscribersOf(r)[i] = c

\* EventBroadcaster.Unsubscribe(r, c), the registry after it: the channel is
\* taken off the list if it is on it.
UnsubscribeRegistry_KeepsRegistered(r, c) ==
    subscribers

UnsubscribeRegistry(r, c) ==
    IF IsSubscribed(r, c)
    THEN [subscribers EXCEPT ![r] = RemoveChannel(@, c)]
    ELSE subscribers

\* EventBroadcaster.Unsubscribe(r, c), the channels after it: close(ch) is
\* executed if the channel was on the list.
UnsubscribeChannels_ClosesAlways(r, c) ==
    [chans EXCEPT ![c].closed = TRUE, ![c].closes = @ + 1]

UnsubscribeChannels(r, c) ==
    IF IsSubscribed(r, c)
    THEN [chans EXCEPT ![c].closed = TRUE, ![c].closes = @ + 1]
    ELSE chans

\* defer broadcaster.Unsubscribe(id, ch): the stream's handler returns
\* through Unsubscribe, which runs under the write lock.
StreamUnsubscribe_RemovesFirst(c) ==
    /\ c \in DOMAIN chans
    /\ chans[c].pc = "unsub"
    /\ InFlight = {}
    /\ subscribers' = [subscribers EXCEPT ![chans[c].retro] = Tail(@)]
    /\ chans' = [chans EXCEPT ![c].pc = "ended",
                              ![c].closed = TRUE,
                              ![c].closes = @ + 1,
                              ![c].stamp = Len(broadcastLog)]
    /\ UNCHANGED <<now, storeVars, broadcastLog, procVars, observe, client,
                   participants, tally>>

StreamUnsubscribe(c) ==
    /\ c \in DOMAIN chans
    /\ chans[c].pc = "unsub"
    /\ InFlight = {}
    /\ subscribers' = UnsubscribeRegistry(chans[c].retro, c)
    /\ chans' = [UnsubscribeChannels(chans[c].retro, c) EXCEPT
                   ![c].pc = "ended",
                   ![c].stamp = Len(broadcastLog)]
    /\ UNCHANGED <<now, storeVars, broadcastLog, procVars, observe, client,
                   participants, tally>>

\* case event, ok := <-ch with !ok: the channel is closed and drained, the
\* handler returns nil through its deferred Unsubscribe.
StreamClosed(c) ==
    /\ c \in DOMAIN chans
    /\ chans[c].pc = "recv"
    /\ chans[c].closed
    /\ chans[c].queue = <<>>
    /\ chans' = [chans EXCEPT ![c].pc = "unsub", ![c].result = "nil"]
    /\ UNCHANGED <<now, storeVars, broadcastLog, procVars, observe, client,
                   participants, subscribers, tally>>

\* broadcaster.Unsubscribe(id, ch) called with the handle of stream c by
\* another goroutine than the stream's, any number of times.
HubUnsubscribe(c) ==
    /\ c \in DOMAIN chans
    /\ chans[c].retro # ""
    /\ InFlight = {}
    /\ subscribers' = UnsubscribeRegistry(chans[c].retro, c)
    /\ chans' = UnsubscribeChannels(chans[c].retro, c)
    /\ UNCHANGED <<now, storeVars, broadcastLog, procVars, observe, client,
                   participants, tally>>

StreamOps(c, R) ==
    \/ StreamSubscribe(c, R)
    \/ StreamRecv(c)
    \/ StreamDone(c)
    \/ StreamUnsubscribe(c)

\* -------------------------------------------------- InMemoryParticipantStore
\* The key of a presence record: RetrospectiveID + ":" + UserID.
ParticipantKey(r, u) == <<r, u>>

\* Join: stamps the record handed in and stores it under its key, in place
\* of any record already there.
ParticipantStoreJoin_Offline(r, u) ==
    participants' =
        (ParticipantKey(r, u) :>
            [JoinedAt |-> now, LastActive |-> now, IsOnline |-> FALSE])
        @@ participants

ParticipantStoreJoin(r, u) ==
    participants' =
        (ParticipantKey(r, u) :>
            [JoinedAt |-> now, LastActive |-> now, IsOnline |-> TRUE])
        @@ participants

\* Leave: a record under the key goes offline and has LastActive stamped.
ParticipantStoreLeave(r, u) ==
    participants' =
        IF ParticipantKey(r, u) \in DOMAIN participants
        THEN [participants EXCEPT ![ParticipantKey(r, u)] =
                [@ EXCEPT !.IsOnline = FALSE, !.LastActive = now]]
        ELSE participants

\* Heartbeat: a record under the key has LastActive stamped and goes online.
ParticipantStoreHeartbeat_Creates(r, u) ==
    participants' =
        IF ParticipantKey(r, u) \in DOMAIN participants
        THEN [participants EXCEPT ![ParticipantKey(r, u)] =
                [@ EXCEPT !.LastActive = now, !.IsOnline = TRUE]]
        ELSE (ParticipantKey(r, u) :>
                [JoinedAt |-> now, LastActive |-> now, IsOnline |-> TRUE])
             @@ participants

ParticipantStoreHeartbeat(r, u) ==
    participants' =
        IF ParticipantKey(r, u) \in DOMAIN participants
        THEN [participants EXCEPT ![ParticipantKey(r, u)] =
                [@ EXCEPT !.LastActive = now, !.IsOnline = TRUE]]
        ELSE participants

\* ListByRetrospective: the online records of the retrospective (their keys).
ParticipantStoreList(ps, r) ==
    { k \in DOMAIN ps : k[1] = r /\ ps[k].IsOnline }

\* ------------------------------------------------------------ RealtimeService
\* JoinRetrospective, for a retrospective id in R, as long as fewer than
\* limit events have been published.
JoinGet(p, R, limit) ==
    \E r \in R :
        /\ Len(broadcastLog) < limit
        /\ IF r = ""
           THEN EnterReturn(p, "Join", [retro |-> r, item |-> ""],
                            "InvalidArgument")
           ELSE IF ~RetroStoreHas(r)
           THEN EnterReturn(p, "Join", [retro |-> r, item |-> ""],
                            "NotFound")
           ELSE Enter(p, "Join", [retro |-> r, item |-> ""], "jn_join",
                      [NoLoc EXCEPT !.retro = r])
        /\ UNCHANGED <<now, storeVars, broadcastLog,
                       observe, client, realtimeVars,
                       tally>>

\* participantStore.Join(participant)
JoinJoin(p) ==
    /\ pc[p] = "jn_join"
    /\ ParticipantStoreJoin(req[p].retro, getUserIDFromContext)
    /\ Goto(p, "jn_list")
    /\ UNCHANGED <<now, storeVars, broadcastLog,
                   observe, client, subscribers, chans,
                   tally>>

\* participants, _ := participantStore.ListByRetrospective(...)
JoinList(p) ==
    /\ pc[p] = "jn_list"
    /\ pc' = [pc EXCEPT ![p] = "jn_bcast"]
    /\ loc' = [loc EXCEPT ![p].n =
                 Cardinality(ParticipantStoreList(participants, req[p].retro))]
    /\ UNCHANGED <<op, req, result, pre, prev, prior, response>>
    /\ UNCHANGED <<now, storeVars, broadcastLog, observe, client, realtimeVars,
                   tally>>

\* broadcaster.Broadcast(..., ParticipantJoined{participant, count})
JoinBroadcast(p) ==
    BroadcastCall(p, "jn_bcast", req[p].retro, "ParticipantJoined",
                  getUserIDFromContext, loc[p].n, "jn_count")

\* retro.ParticipantCount = int32(len(participants)), through the pointer.
JoinCount(p) ==
    /\ pc[p] = "jn_count"
    /\ retros' = [retros EXCEPT ![req[p].retro].ParticipantCount = loc[p].n]
    /\ Goto(p, "jn_update")
    /\ UNCHANGED <<now, items, votes, nextVoteId, nextItemId, broadcastLog,
                   observe, client,
                   realtimeVars, tally>>

\* retroStore.Update(retro), and the response: the presence listed and the
\* caller's record.
JoinUpdate(p) ==
    /\ pc[p] = "jn_update"
    /\ RetroStoreUpdate(req[p].retro)
    /\ pc' = [pc EXCEPT ![p] = "done"]
    /\ result' = [result EXCEPT ![p] = "OK"]
    /\ response' = [response EXCEPT ![p] =
            [kind |-> "OK",
             ParticipantCount |-> loc[p].n,
             CurrentParticipant |->
                participants[ParticipantKey(req[p].retro,
                                            getUserIDFromContext)]]]
    /\ UNCHANGED <<op, req, loc, pre, prev, prior>>
    /\ UNCHANGED <<now, items, votes, nextVoteId, nextItemId, broadcastLog,
                   observe, client,
                   realtimeVars, tally>>

JoinOps(p, R, limit) ==
    \/ JoinGet(p, R, limit)
    \/ JoinJoin(p)
    \/ JoinList(p)
    \/ JoinBroadcast(p)
    \/ JoinCount(p)
    \/ JoinUpdate(p)

\* LeaveRetrospective, for a retrospective id in R: the id is not looked up
\* before the store is told.
LeaveLeave(p, R, limit) ==
    \E r \in R :
        /\ Len(broadcastLog) < limit
        /\ IF r = ""
           THEN /\ EnterReturn(p, "Leave", [retro |-> r, item |-> ""],
                               "InvalidArgument")
                /\ UNCHANGED participants
           ELSE /\ Enter(p, "Leave", [retro |-> r, item |-> ""], "lv_list",
                         [NoLoc EXCEPT !.retro = r])
                /\ ParticipantStoreLeave(r, getUserIDFromContext)
        /\ UNCHANGED <<now, storeVars, broadcastLog,
                       observe, client, subscribers,
                       chans, tally>>

LeaveList(p) ==
    /\ pc[p] = "lv_list"
    /\ pc' = [pc EXCEPT ![p] = "lv_bcast"]
    /\ loc' = [loc EXCEPT ![p].n =
                 Cardinality(ParticipantStoreList(participants, req[p].retro))]
    /\ UNCHANGED <<op, req, result, pre, prev, prior, response>>
    /\ UNCHANGED <<now, storeVars, broadcastLog, observe, client, realtimeVars,
                   tally>>

\* broadcaster.Broadcast(..., ParticipantLeft{userId, count})
LeaveBroadcast(p) ==
    BroadcastCall(p, "lv_bcast", req[p].retro, "ParticipantLeft",
                  getUserIDFromContext, loc[p].n, "lv_get")

\* retro, err := retroStore.Get(...): an unknown id ends the call.
LeaveGet(p) ==
    /\ pc[p] = "lv_get"
    /\ IF RetroStoreHas(req[p].retro)
       THEN Goto(p, "lv_count")
       ELSE Return(p, "OK")
    /\ UNCHANGED <<now, storeVars, broadcastLog, observe, client, realtimeVars,
                   tally>>

LeaveCount(p) ==
    /\ pc[p] = "lv_count"
    /\ retros' = [retros EXCEPT ![req[p].retro].ParticipantCount = loc[p].n]
    /\ Goto(p, "lv_update")
    /\ UNCHANGED <<now, items, votes, nextVoteId, nextItemId, broadcastLog,
                   observe, client,
                   realtimeVars, tally>>

LeaveUpdate(p) ==
    /\ pc[p] = "lv_update"
    /\ RetroStoreUpdate(req[p].retro)
    /\ Return(p, "OK")
    /\ UNCHANGED <<now, items, votes, nextVoteId, nextItemId, broadcastLog,
                   observe, client,
                   realtimeVars, tally>>

LeaveOps(p, R, limit) ==
    \/ LeaveLeave(p, R, limit)
    \/ LeaveList(p)
    \/ LeaveBroadcast(p)
    \/ LeaveGet(p)
    \/ LeaveCount(p)
    \/ LeaveUpdate(p)

\* Heartbeat, for a retrospective id in R.
Heartbeat(p, R) ==
    \E r \in R :
        /\ IF r = ""
           THEN /\ EnterReturn(p, "Heartbeat", [retro |-> r, item |-> ""],
                               "InvalidArgument")
                /\ UNCHANGED participants
           ELSE /\ EnterReturn(p, "Heartbeat", [retro |-> r, item |-> ""],
                               "OK")
                /\ ParticipantStoreHeartbeat(r, getUserIDFromContext)
        /\ UNCHANGED <<now, storeVars, broadcastLog,
                       observe, client, subscribers,
                       chans, tally>>

\* GetParticipants, for a retrospective id in R: the online records of the
\* retrospective and their number.
GetParticipants(p, R) ==
    \E r \in R :
        /\ pc[p] = "done"
        /\ pc' = pc
        /\ op' = [op EXCEPT ![p] = "GetParticipants"]
        /\ req' = [req EXCEPT ![p] = [retro |-> r, item |-> ""]]
        /\ loc' = [loc EXCEPT ![p] = NoLoc]
        /\ result' = [result EXCEPT ![p] =
                        IF r = "" THEN "InvalidArgument" ELSE "OK"]
        /\ pre' = [pre EXCEPT ![p] = Snapshot]
        /\ prev' = [prev EXCEPT ![p] = LastCall(p)]
        /\ prior' = [prior EXCEPT ![p] = PriorCall(p)]
        /\ response' = [response EXCEPT ![p] =
              IF r = "" THEN NoResponse
              ELSE [kind |-> "OK",
                    ParticipantCount |->
                       Cardinality(ParticipantStoreList(participants, r)),
                    Participants |-> ParticipantStoreList(participants, r)]]
        /\ UNCHANGED <<now, storeVars, broadcastLog,
                       observe, client, realtimeVars,
                       tally>>

\* ------------------------------------------ galaxy: useRetrospectiveStore
\* The browser's store, as far as presence and the vote summary go: the
\* retrospective on show, the participants list and the userVotes summary.
\* Cards and action items are lists of their own that none of this reads.
null == [null |-> TRUE]
ClientUsers == {"u1", "u2"}            \* userId of a participant
ClientMaxVotes == {2, DefaultMaxVotesPerUser}   \* maxVotesPerUser on show

initialState ==
    [retrospective |-> null, participants |-> <<>>, userVotes |-> null]

\* The presence lists a Join response carries: one record per user, in
\* any order (the participant store keeps one record per user).
PresenceLists ==
    { l \in UNION { [1..n -> [userId : ClientUsers]] :
                      n \in 0..Cardinality(ClientUsers) } :
        \A i, j \in 1..Len(l) : l[i].userId = l[j].userId => i = j }

setRetrospective(state, retrospective) ==
    [state EXCEPT !.retrospective = retrospective]

setParticipants(state, list) == [state EXCEPT !.participants = list]

addParticipant(state, participant) ==
    [state EXCEPT !.participants = Append(@, participant)]

removeParticipant(state, userId) ==
    [state EXCEPT !.participants =
        SelectSeq(@, LAMBDA q : q.userId # userId)]

setUserVotes(state, userVotes) == [state EXCEPT !.userVotes = userVotes]

setStatus(state, status) ==
    [state EXCEPT !.retrospective =
        IF @ = null THEN null ELSE [@ EXCEPT !.status = status]]

\* handleEvent on the presence and status events.  The participant count
\* is written onto the retrospective the handler read when it started,
\* which the list update before it does not touch.
handleEvent(state, event) ==
    LET counted(s) ==
            IF state.retrospective = null THEN s
            ELSE [s EXCEPT !.retrospective =
                     [state.retrospective EXCEPT
                         !.participantCount = event.participantCount]]
    IN  CASE event.type = "participantJoined" ->
                counted(addParticipant(state, event.participant))
          [] event.type = "participantLeft" ->
                counted(removeParticipant(state, event.userId))
          [] event.type = "statusChanged" ->
                setStatus(state, event.newStatus)
          [] OTHER -> state

\* JavaScript's a || b on numbers: b when a is 0 (or missing, kept as 0).
Or(a, b) == IF a = 0 THEN b ELSE a

\* What the VotingStatus component computes from the store: nothing
\* outside the voting phase, else the limit, the votes used and the votes
\* left that it shows.
VotingStatus(state) ==
    IF state.retrospective = null
          \/ state.retrospective.status # RetrospectiveStatusVoting
    THEN null
    ELSE LET maxVotes ==
                 Or(state.retrospective.votingConfig.maxVotesPerUser, 5)
             votesUsed ==
                 IF state.userVotes = null THEN 0
                 ELSE Or(state.userVotes.votesCast, 0)
             votesRemaining ==
                 IF state.userVotes = null THEN maxVotes
                 ELSE Or(state.userVotes.votesRemaining, maxVotes)
         IN  [maxVotes |-> maxVotes, votesUsed |-> votesUsed,
              votesRemaining |-> votesRemaining]

\* The page stores the retrospective a Get returned, or the one on show
\* with the status a transition moved it to.
ClientSetRetrospective ==
    /\ \E st \in Statuses, m \in ClientMaxVotes :
          client' = setRetrospective(client,
                        [status |-> st,
                         votingConfig |-> [maxVotesPerUser |-> m],
                         participantCount |-> 0])
    /\ UNCHANGED <<now, storeVars, broadcastLog, procVars, observe,
                   realtimeVars, tally>>

\* The page stores the presence list of its Join response.
ClientSetParticipants ==
    /\ \E l \in PresenceLists : client' = setParticipants(client, l)
    /\ UNCHANGED <<now, storeVars, broadcastLog, procVars, observe,
                   realtimeVars, tally>>

\* The page stores the summary a GetUserVotes returned for the
\* retrospective on show: the votes cast and what is left of the limit.
ClientSetUserVotes ==
    /\ client.retrospective # null
    /\ LET max == client.retrospective.votingConfig.maxVotesPerUser
       IN  \E c \in 0..max :
              client' = setUserVotes(client,
                            [votesCast |-> c, votesRemaining |-> max - c])
    /\ UNCHANGED <<now, storeVars, broadcastLog, procVars, observe,
                   realtimeVars, tally>>

\* A presence or status event of the stream reaches the store.
ClientHandleEvent ==
    /\ \E u \in ClientUsers, n \in 0..Cardinality(ClientUsers),
          st \in Statuses,
          t \in {"participantJoined", "participantLeft", "statusChanged"} :
          /\ t = "participantJoined"
                => Len(client.participants) < MaxParticipants
          /\ client' = handleEvent(client,
                           [type |-> t, participant |-> [userId |-> u],
                            userId |-> u, participantCount |-> n,
                            newStatus |-> st])
    /\ UNCHANGED <<now, storeVars, broadcastLog, procVars, observe,
                   realtimeVars, tally>>

\* ------------------------------------------------------------ specifications
\* Nobody has joined and nobody is subscribed.
NoRealtime ==
    /\ participants = <<>>
    /\ subscribers = <<>>
    /\ chans = <<>>

InitProcs ==
    /\ pc = [p \in Procs |-> "done"]
    /\ op = [p \in Procs |-> "none"]
    /\ req = [p \in Procs |-> NoReq]
    /\ result = [p \in Procs |-> "none"]
    /\ loc = [p \in Procs |-> NoLoc]
    /\ pre = [p \in Procs |-> NoSnap]
    /\ prev = [p \in Procs |-> NoStanding]
    /\ response = [p \in Procs |-> NoResponse]

\* The server after construction: empty stores.
Init ==
    /\ now = 1
    /\ retros = <<>>
    /\ items = <<>>
    /\ votes = <<>>
    /\ nextVoteId = 1
    /\ nextItemId = 1
    /\ broadcastLog = <<>>
    /\ NoRealtime
    /\ observe = FALSE
    /\ client = initialState
    /\ tally = NoTally
    /\ prior = [p \in Procs |-> NoPrior]
    /\ InitProcs

\* Concurrent handlers of the retrospective service.
Next ==
    \/ Tick
    \/ \E p \in Procs : StatusOps(p, ReqRetroIds)

Spec == Init /\ [][Next]_vars

\* The calls of the retrospective service, Update among them, one after
\* the other, on the retrospectives Create has stored.
NextLifecycle ==
    \/ Tick
    \/ StatusOps(1, ReqRetroIds)
    \/ UpdateOps(1, ReqRetroIds, Statuses)

SpecLifecycle == Init /\ [][NextLifecycle]_vars

\* A board: retrospective r1 in status s with voting configuration c and
\* two cards, and a card left behind by a retrospective since deleted.
Board(s, c) ==
    /\ now = 1
    /\ retros = ("r1" :> [Status |-> s, VotingConfig |-> c, ItemCount |-> 2,
                          ParticipantCount |-> 0,
                          CompletedAt |-> IF s = RetrospectiveStatusCompleted
                                          THEN now ELSE ZeroTime,
                          Updated |-> now])
    /\ items = [i \in ItemIds |->
                  [RetrospectiveID |-> IF i = "i3" THEN "r2" ELSE "r1",
                   VoteCount |-> 0]]
    /\ votes = <<>>
    /\ nextVoteId = 1
    /\ nextItemId = 1
    /\ broadcastLog = <<>>
    /\ NoRealtime
    /\ InitProcs

\* The voting configurations a retrospective can have been created with.
VotingConfigs == { VotingConfigOf(cfg) : cfg \in ReqVotingConfigs }

\* One request at a time, on a stored retrospective in any status: the
\* contracts of the status transitions.  Calls record the stores they
\* start from.
InitSeq ==
    /\ observe = TRUE
    /\ client = initialState
    /\ tally = NoTally
    /\ prior = [p \in Procs |-> NoPrior]
    /\ \E s \in Statuses, c \in VotingConfigs : Board(s, c)

NextSeq ==
    \/ Tick
    \/ StatusOps(1, ReqRetroIds)

SpecSeq == InitSeq /\ [][NextSeq]_vars

\* One voting request at a time, on a stored retrospective in any status:
\* the contracts of CastVote and RemoveVote.
NextVoteSeq ==
    \/ CastVoteOps(1, ReqRetroIds, ReqItemIds)
    \/ RemoveVoteOps(1, ReqRetroIds, ReqItemIds)

SpecVoteSeq == InitSeq /\ [][NextVoteSeq]_vars

\* One voting request at a time on the cards of a stored retrospective,
\* each call keeping the call before it: what a CastVote and the
\* RemoveVote after it leave behind.
InitPair ==
    /\ observe = TRUE
    /\ client = initialState
    /\ tally = NoTally
    /\ prior = [p \in Procs |-> FirstCall]
    /\ \E s \in Statuses, c \in VotingConfigs : Board(s, c)

NextPair ==
    \/ CastVoteOps(1, {"r1"}, {"i1", "i2"})
    \/ RemoveVoteOps(1, {"r1"}, {"i1", "i2"})

SpecPair == InitPair /\ [][NextPair]_vars

\* A board to be ranked: four cards of retrospective r1, which allows
\* several votes per card, each card with as many votes of the user as its
\* VoteCount says.
SummaryItems == <<"i1", "i2", "i3", "i4">>

RECURSIVE VotesUpTo(_, _)
VotesUpTo(counts, a) ==
    IF a = 0 THEN 0 ELSE counts[a] + VotesUpTo(counts, a - 1)

InitSummary ==
    /\ observe = FALSE
    /\ client = initialState
    /\ tally = NoTally
    /\ prior = [p \in Procs |-> NoPrior]
    /\ now = 1
    /\ broadcastLog = <<>>
    /\ NoRealtime
    /\ InitProcs
    /\ \E counts \in [1..Len(SummaryItems) -> 0..MaxVoteCount] :
         LET total == VotesUpTo(counts, Len(SummaryItems))
         IN  /\ retros = ("r1" :>
                    [Status |-> RetrospectiveStatusVoting,
                     VotingConfig |->
                        [MaxVotesPerUser |-> Len(SummaryItems) * MaxVoteCount,
                         AllowMultipleVotesPerItem |-> TRUE],
                     ItemCount |-> Len(SummaryItems), ParticipantCount |-> 0,
                     CompletedAt |-> ZeroTime,
                     Updated |-> now])
             /\ items = [i \in { SummaryItems[a] :
                                    a \in 1..Len(SummaryItems) } |->
                    [RetrospectiveID |-> "r1",
                     VoteCount |-> counts[CHOOSE a \in 1..Len(SummaryItems) :
                                            SummaryItems[a] = i]]]
             /\ votes = [v \in 1..total |->
                    [RetrospectiveID |-> "r1",
                     ItemID |-> SummaryItems[
                        CHOOSE a \in 1..Len(SummaryItems) :
                            /\ VotesUpTo(counts, a - 1) < v
                            /\ v <= VotesUpTo(counts, a)],
                     UserID |-> getUserIDFromContext]]
             /\ nextVoteId = total + 1
             /\ nextItemId = 1

NextSummary == GetVoteSummaryOps(1, ReqRetroIds)

SpecSummary == InitSummary /\ [][NextSummary]_vars

\* A voting board whose user holds some votes: the limit is not enforced
\* across concurrent CastVotes, so with NumProcs of them in flight a user
\* can hold up to NumProcs - 1 votes more than MaxVotesPerUser, and up to
\* NumProcs votes on a card that allows one.
ReqUserIds == {"", getUserIDFromContext, "other-user-id"}

InitUserVotes ==
    /\ observe = TRUE
    /\ client = initialState
    /\ tally = NoTally
    /\ prior = [p \in Procs |-> NoPrior]
    /\ \E s \in {RetrospectiveStatusVoting, RetrospectiveStatusDiscussing},
          c \in VotingConfigs :
         \E counts \in [1..2 -> 0..(c.MaxVotesPerUser + NumProcs - 1)] :
            LET total == counts[1] + counts[2]
            IN  /\ total <= c.MaxVotesPerUser + NumProcs - 1
                /\ c.AllowMultipleVotesPerItem
                     \/ (counts[1] <= NumProcs /\ counts[2] <= NumProcs)
                /\ now = 1
                /\ retros = ("r1" :>
                      [Status |-> s, VotingConfig |-> c, ItemCount |-> 2,
                                                         ParticipantCount |-> 0,
                       CompletedAt |-> ZeroTime, Updated |-> now])
                /\ items = [i \in ItemIds |->
                      [RetrospectiveID |-> IF i = "i3" THEN "r2" ELSE "r1",
                       VoteCount |-> IF i = "i1" THEN counts[1]
                                     ELSE IF i = "i2" THEN counts[2] ELSE 0]]
                /\ votes = [v \in 1..total |->
                      [RetrospectiveID |-> "r1",
                       ItemID |-> IF v <= counts[1] THEN "i1" ELSE "i2",
                       UserID |-> getUserIDFromContext]]
                /\ nextVoteId = total + 1
                /\ nextItemId = 1
                /\ broadcastLog = <<>>
                /\ NoRealtime
                /\ InitProcs

NextUserVotes == GetUserVotesOps(1, ReqRetroIds, ReqUserIds)

SpecUserVotes == InitUserVotes /\ [][NextUserVotes]_vars

\* Two stored retrospectives nobody has joined yet, and one presence call at
\* a time, for one of them or without an id: the contracts of Join, Leave
\* and Heartbeat.
PresenceRetroIds == {"", "r1", "r2"}

InitPresence ==
    /\ observe = TRUE
    /\ client = initialState
    /\ tally = NoTally
    /\ prior = [p \in Procs |-> FirstCall]
    /\ now = 1
    /\ retros = [r \in {"r1", "r2"} |->
                   NewRetrospective([given |-> FALSE, max |-> 0,
                                     multi |-> FALSE])]
    /\ items = <<>>
    /\ votes = <<>>
    /\ nextVoteId = 1
    /\ nextItemId = 1
    /\ broadcastLog = <<>>
    /\ NoRealtime
    /\ InitProcs

NextPresence ==
    \/ Tick
    \/ JoinOps(1, PresenceRetroIds, MaxEvents)
    \/ LeaveOps(1, PresenceRetroIds, MaxEvents)
    \/ Heartbeat(1, PresenceRetroIds)
    \/ BroadcastReturn(1)    \* nobody is subscribed: the loop sends nothing

SpecPresence == InitPresence /\ [][NextPresence]_vars

\* Two stored retrospectives, streams that subscribe to them, take events
\* off their channels and go away at any time, and a caller that publishes
\* events for them one after the other.
HubRetroIds == {"r1", "r2"}

InitHub ==
    /\ observe = FALSE
    /\ client = initialState
    /\ tally = NoTally
    /\ prior = [p \in Procs |-> NoPrior]
    /\ now = 1
    /\ retros = [r \in HubRetroIds |->
                   NewRetrospective([given |-> FALSE, max |-> 0,
                                     multi |-> FALSE])]
    /\ items = <<>>
    /\ votes = <<>>
    /\ nextVoteId = 1
    /\ nextItemId = 1
    /\ broadcastLog = <<>>
    /\ participants = <<>>
    /\ subscribers = <<>>
    /\ chans = [c \in 1..MaxStreams |-> NoStream]
    /\ InitProcs

NextHub ==
    \/ BroadcastOps(1, HubRetroIds, MaxBroadcasts)
    \/ \E c \in 1..MaxStreams : StreamOps(c, HubRetroIds)

SpecHub == InitHub /\ [][NextHub]_vars

\* The same retrospectives, callers that publish events for them at the
\* same time, and one stream: the order in which a subscriber gets events.
NextOrder ==
    \/ \E p \in Procs : BroadcastOps(p, HubRetroIds, MaxBroadcasts)
    \/ StreamOps(1, HubRetroIds)

SpecOrder == InitHub /\ [][NextOrder]_vars

\* Cards created on a freshly created retrospective with two cards, and
\* its two cards deleted, by concurrent calls.
InitItems ==
    /\ observe = FALSE
    /\ client = initialState
    /\ tally = NoTally
    /\ prior = [p \in Procs |-> NoPrior]
    /\ Board(RetrospectiveStatusDraft,
             VotingConfigOf([given |-> FALSE, max |-> 0, multi |-> FALSE]))

NextItems ==
    \E p \in Procs :
        \/ ItemCreateOps(p, {"r1"}, {"went_well"}, {"text"})
        \/ ItemDeleteOps(p, {"r1"}, {"i1", "i2"})

SpecItems == InitItems /\ [][NextItems]_vars

\* One request at a time, of any of the synchronous operations, on a
\* freshly created retrospective with two cards; the retrospective id of a
\* request is the stored one or empty.  Calls record the stores they start
\* from.
SyncRetroIds == {"", "r1"}

InitSync ==
    /\ observe = TRUE
    /\ client = initialState
    /\ tally = NoTally
    /\ prior = [p \in Procs |-> NoPrior]
    /\ Board(RetrospectiveStatusDraft,
             VotingConfigOf([given |-> FALSE, max |-> 0, multi |-> FALSE]))

NextSync ==
    \/ StartVotingGet(1, SyncRetroIds)
    \/ StartVotingCheck1(1)
    \/ StartVotingCheck2(1)
    \/ StartVotingSet(1)
    \/ StartVotingUpdate(1)
    \/ StartDiscussionGet(1, SyncRetroIds)
    \/ StartDiscussionCheck(1)
    \/ StartDiscussionSet(1)
    \/ StartDiscussionUpdate(1)
    \/ CompleteGet(1, SyncRetroIds)
    \/ CompleteSet(1)
    \/ CompleteTime(1)
    \/ CompleteUpdate(1)
    \/ CastVoteOps(1, SyncRetroIds, {"i1"})
    \/ RemoveVoteOps(1, SyncRetroIds, {"i1"})
    \/ GetVoteSummaryOps(1, SyncRetroIds)
    \/ GetUserVotesOps(1, SyncRetroIds, {""})
    \/ JoinOps(1, SyncRetroIds, MaxEvents)
    \/ LeaveOps(1, SyncRetroIds, MaxEvents)
    \/ BroadcastReturn(1)
    \/ Heartbeat(1, SyncRetroIds)
    \/ GetParticipants(1, SyncRetroIds)

SpecSync == InitSync /\ [][NextSync]_vars

\* A caller that publishes events for retrospective r1, streams that
\* subscribe to it, and goroutines that call Unsubscribe with the streams'
\* handles.
NextTeardown ==
    \/ BroadcastOps(1, {"r1"}, MaxBroadcasts)
    \/ \E c \in 1..MaxStreams :
          \/ StreamOps(c, {"r1"})
          \/ StreamClosed(c)
          \/ HubUnsubscribe(c)

SpecTeardown == InitHub /\ [][NextTeardown]_vars

\* The same with two streams and the goroutines scheduled: a Broadcast
\* that has the read lock goes on to release it, and a handler that is
\* returning goes on to take the write lock once no Broadcast holds the
\* read lock.
EndingStreams == {1, 2}

NextStreamEnd ==
    \/ BroadcastOps(1, {"r1"}, MaxBroadcasts)
    \/ \E c \in EndingStreams :
          \/ StreamOps(c, {"r1"})
          \/ StreamClosed(c)
          \/ HubUnsubscribe(c)

FairStreamEnd ==
    /\ WF_vars(BroadcastSend(1) \/ BroadcastReturn(1))
    /\ \A c \in EndingStreams : WF_vars(StreamUnsubscribe(c))

SpecStreamEnd == InitHub /\ [][NextStreamEnd]_vars /\ FairStreamEnd

\* Callers that publish events for retrospective r1 at the same time, and
\* two streams that subscribe to it: the order in which two subscribers
\* get the same events.
NextFanOrder ==
    \/ \E p \in Procs : BroadcastOps(p, {"r1"}, MaxBroadcasts)
    \/ \E c \in EndingStreams : StreamOps(c, {"r1"})

SpecFanOrder == InitHub /\ [][NextFanOrder]_vars

\* Retrospective r1 after SubscriberQueueCapacity - 1 events were published
\* to its two subscribers: stream 1 has taken none of them off its channel,
\* stream 2 all of them.
SlowStream == 1
FastStream == 2

InitHubFull ==
    /\ observe = FALSE
    /\ client = initialState
    /\ tally = NoTally
    /\ prior = [p \in Procs |-> NoPrior]
    /\ now = 1
    /\ retros = [r \in HubRetroIds |->
                   NewRetrospective([given |-> FALSE, max |-> 0,
                                     multi |-> FALSE])]
    /\ items = <<>>
    /\ votes = <<>>
    /\ nextVoteId = 1
    /\ nextItemId = 1
    /\ broadcastLog = [e \in 1..(SubscriberQueueCapacity - 1) |->
          [type |-> "ItemCreated", retro |-> "r1", user |-> "", count |-> 0,
           open |-> {}, subs |-> <<SlowStream, FastStream>>, full |-> {}]]
    /\ participants = <<>>
    /\ subscribers = ("r1" :> <<SlowStream, FastStream>>)
    /\ chans = (SlowStream :>
                  [NoStream EXCEPT
                     !.pc = "recv", !.retro = "r1",
                     !.queue = [e \in 1..(SubscriberQueueCapacity - 1) |-> e]])
               @@ (FastStream :>
                  [NoStream EXCEPT
                     !.pc = "recv", !.retro = "r1",
                     !.got = [e \in 1..(SubscriberQueueCapacity - 1) |-> e]])
    /\ InitProcs

NextHubFull ==
    \/ BroadcastOps(1, {"r1"}, SubscriberQueueCapacity - 1 + MaxBroadcasts)
    \/ \E c \in {SlowStream, FastStream} :
          \/ StreamRecv(c)
          \/ StreamDone(c)
          \/ StreamUnsubscribe(c)

SpecHubFull == InitHubFull /\ [][NextHubFull]_vars

\* Retrospective r1 after SubscriberQueueCapacity - 1 events were published
\* to its one subscriber, which has taken none of them off its channel and
\* takes none until it goes away, a second stream that has not subscribed
\* yet, and goroutines that call Unsubscribe with the streams' handles.
LateStream == 2

InitHubLoad ==
    /\ observe = FALSE
    /\ client = initialState
    /\ tally = NoTally
    /\ prior = [p \in Procs |-> NoPrior]
    /\ now = 1
    /\ retros = [r \in HubRetroIds |->
                   NewRetrospective([given |-> FALSE, max |-> 0,
                                     multi |-> FALSE])]
    /\ items = <<>>
    /\ votes = <<>>
    /\ nextVoteId = 1
    /\ nextItemId = 1
    /\ broadcastLog = [e \in 1..(SubscriberQueueCapacity - 1) |->
          [type |-> "ItemCreated", retro |-> "r1", user |-> "", count |-> 0,
           open |-> {}, subs |-> <<SlowStream>>, full |-> {}]]
    /\ participants = <<>>
    /\ subscribers = ("r1" :> <<SlowStream>>)
    /\ chans = (SlowStream :>
                  [NoStream EXCEPT
                     !.pc = "recv", !.retro = "r1",
                     !.queue = [e \in 1..(SubscriberQueueCapacity - 1) |-> e]])
               @@ (LateStream :> NoStream)
    /\ InitProcs

NextHubLoad ==
    \/ BroadcastOps(1, {"r1"}, SubscriberQueueCapacity - 1 + MaxBroadcasts)
    \/ StreamDone(SlowStream)
    \/ StreamUnsubscribe(SlowStream)
    \/ StreamOps(LateStream, {"r1"})
    \/ StreamClosed(LateStream)
    \/ \E c \in {SlowStream, LateStream} : HubUnsubscribe(c)

SpecHubLoad == InitHubLoad /\ [][NextHubLoad]_vars

\* Concurrent voting on the cards of a freshly created retrospective.
InitVote ==
    /\ observe = FALSE
    /\ client = initialState
    /\ tally = NoTally
    /\ prior = [p \in Procs |-> NoPrior]
    /\ \E c \in VotingConfigs : Board(RetrospectiveStatusDraft, c)

NextVote ==
    \E p \in Procs :
        \/ StartVotingGet(p, {"r1"})
        \/ StartVotingCheck1(p)
        \/ StartVotingCheck2(p)
        \/ StartVotingSet(p)
        \/ StartVotingUpdate(p)
        \/ CastVoteOps(p, {"r1"}, {"i1", "i2"})
        \/ RemoveVoteOps(p, {"r1"}, {"i1", "i2"})

SpecVote == InitVote /\ [][NextVote]_vars

\* Concurrent CastVote and RemoveVote calls on one card, with the tally of
\* the counter updates the item store applies to it.  The retrospective
\* was created allowing several votes per card, with the default limit.
InitCounter ==
    /\ observe = FALSE
    /\ client = initialState
    /\ tally = ZeroTally
    /\ prior = [p \in Procs |-> NoPrior]
    /\ \E s \in {RetrospectiveStatusDraft, RetrospectiveStatusVoting} :
          Board(s, VotingConfigOf([given |-> TRUE, max |-> 0, multi |-> TRUE]))

NextCounter ==
    \E p \in Procs :
        \/ CastVoteOps(p, {"r1"}, {"i1"})
        \/ RemoveVoteOps(p, {"r1"}, {"i1"})

SpecCounter == InitCounter /\ [][NextCounter]_vars

\* A vote cast on a card while the card is being deleted: the one way to
\* CastVote's rollback.  The retrospective was created with the default
\* vote limit.
InitRollback ==
    /\ observe = FALSE
    /\ client = initialState
    /\ tally = NoTally
    /\ prior = [p \in Procs |-> NoPrior]
    /\ \E s \in {RetrospectiveStatusDraft, RetrospectiveStatusVoting},
          multi \in BOOLEAN :
         Board(s, VotingConfigOf([given |-> TRUE, max |-> 0,
                                  multi |-> multi]))

NextRollback ==
    \E p \in Procs :
        \/ CastVoteOps(p, {"r1"}, {"i1"})
        \/ CastVoteRollback(p)
        \/ ItemDeleteOps(p, {"", "r1"}, {"i1"})

SpecRollback == InitRollback /\ [][NextRollback]_vars

\* The browser's store on its own: the page's setters and the events of
\* the stream, starting from the store's initial state, beside a server
\* that nothing calls.
NextClient ==
    \/ ClientSetRetrospective
    \/ ClientSetParticipants
    \/ ClientSetUserVotes
    \/ ClientHandleEvent

SpecClient == Init /\ [][NextClient]_vars

\* ------------------------------------------------------------------ claims
\* A call of process p that has returned, with the stores it started from.
Returned(p, o) == pc[p] = "done" /\ op[p] = o /\ pre[p].on

\* The status the retrospective of p's request had when the call started.
PreStatus(p) == pre[p].retros[req[p].retro].Status

\* C1: no step moves the status of a retrospective to an earlier phase
\* (DRAFT < ACTIVE < VOTING < DISCUSSING < COMPLETED), whatever the
\* interleaving of StartVoting, StartDiscussion and Complete.
C1_StatusNeverRegresses ==
    [][\A r \in DOMAIN retros :
          r \in DOMAIN retros' => retros'[r].Status >= retros[r].Status]_vars

\* C2: of two StartVoting calls on the same retrospective that run
\* concurrently, at most one returns success.
C2_OneStartVotingSucceeds ==
    \A p, q \in Procs :
        ( /\ p # q
          /\ pc[p] = "done" /\ pc[q] = "done"
          /\ op[p] = "StartVoting" /\ op[q] = "StartVoting"
          /\ req[p].retro = req[q].retro
          /\ result[p] = "OK" )
        => result[q] # "OK"

\* C3: StartVoting on a stored retrospective succeeds and leaves it in
\* VOTING exactly when it found it in DRAFT or ACTIVE; from any other status
\* it returns InvalidStatus and the retrospective is as it was.
C3_StartVotingContract ==
    \A p \in Procs :
        (Returned(p, "StartVoting") /\ req[p].retro \in DOMAIN pre[p].retros)
        => IF PreStatus(p) \in
                {RetrospectiveStatusDraft, RetrospectiveStatusActive}
           THEN /\ result[p] = "OK"
                /\ retros[req[p].retro].Status = RetrospectiveStatusVoting
           ELSE /\ result[p] = "InvalidStatus"
                /\ retros = pre[p].retros

\* C3 witness: a StartVoting that found the retrospective in ACTIVE has
\* returned success.
C3_Witness ==
    \E p \in Procs :
        /\ Returned(p, "StartVoting")
        /\ req[p].retro \in DOMAIN pre[p].retros
        /\ PreStatus(p) = RetrospectiveStatusActive
        /\ result[p] = "OK"

\* C4: StartDiscussion on a stored retrospective succeeds and leaves it in
\* DISCUSSING exactly when it found it in VOTING; from any other status it
\* returns InvalidStatus and the retrospective is as it was.
C4_StartDiscussionContract ==
    \A p \in Procs :
        ( /\ Returned(p, "StartDiscussion")
          /\ req[p].retro \in DOMAIN pre[p].retros )
        => IF PreStatus(p) = RetrospectiveStatusVoting
           THEN /\ result[p] = "OK"
                /\ retros[req[p].retro].Status = RetrospectiveStatusDiscussing
           ELSE /\ result[p] = "InvalidStatus"
                /\ retros = pre[p].retros

\* C4 witness: a StartDiscussion that found the retrospective in DRAFT has
\* been refused.
C4_Witness ==
    \E p \in Procs :
        /\ Returned(p, "StartDiscussion")
        /\ req[p].retro \in DOMAIN pre[p].retros
        /\ PreStatus(p) = RetrospectiveStatusDraft
        /\ result[p] = "InvalidStatus"

\* C5: Complete on a stored retrospective in DRAFT, ACTIVE, VOTING or
\* DISCUSSING succeeds, leaves it in COMPLETED and records as completion
\* time a time of the call.
C5_CompleteContract ==
    \A p \in Procs :
        ( /\ Returned(p, "Complete")
          /\ req[p].retro \in DOMAIN pre[p].retros
          /\ PreStatus(p) # RetrospectiveStatusCompleted )
        => /\ result[p] = "OK"
           /\ retros[req[p].retro].Status = RetrospectiveStatusCompleted
           /\ retros[req[p].retro].CompletedAt # ZeroTime
           /\ retros[req[p].retro].CompletedAt >= pre[p].now
           /\ retros[req[p].retro].CompletedAt <= now

\* C5 witness: a Complete that found the retrospective in DRAFT has
\* returned.
C5_Witness ==
    \E p \in Procs :
        /\ Returned(p, "Complete")
        /\ req[p].retro \in DOMAIN pre[p].retros
        /\ PreStatus(p) = RetrospectiveStatusDraft
        /\ retros[req[p].retro].CompletedAt = now

\* C6: a transition requested on a COMPLETED retrospective fails and leaves
\* the record, completion time included, as it was.
C6_CompletedIsTerminal ==
    \A p \in Procs :
        ( /\ pc[p] = "done" /\ op[p] \in Transitions /\ pre[p].on
          /\ req[p].retro \in DOMAIN pre[p].retros
          /\ PreStatus(p) = RetrospectiveStatusCompleted )
        => /\ result[p] # "OK"
           /\ retros = pre[p].retros

\* C7: a transition that returned success has broadcast a StatusChanged
\* event for its retrospective.
C7_TransitionBroadcasts ==
    \A p \in Procs :
        (pc[p] = "done" /\ op[p] \in Transitions /\ result[p] = "OK")
        => \E k \in 1..Len(broadcastLog) :
              /\ broadcastLog[k].type = "StatusChanged"
              /\ broadcastLog[k].retro = req[p].retro

\* C8: CastVote with both ids on a stored retrospective that is in DRAFT,
\* DISCUSSING or COMPLETED returns InvalidStatus, creates no Vote and
\* changes no VoteCount.
C8_CastVoteStatusGate ==
    \A p \in Procs :
        ( /\ Returned(p, "CastVote")
          /\ req[p].retro # "" /\ req[p].item # ""
          /\ req[p].retro \in DOMAIN pre[p].retros
          /\ PreStatus(p) \notin
                {RetrospectiveStatusActive, RetrospectiveStatusVoting} )
        => /\ result[p] = "InvalidStatus"
           /\ votes = pre[p].votes
           /\ items = pre[p].items

\* C8 witness: a CastVote on a card of a DISCUSSING retrospective has been
\* refused.
C8_Witness ==
    \E p \in Procs :
        /\ Returned(p, "CastVote")
        /\ req[p].retro = "r1" /\ req[p].item = "i1"
        /\ PreStatus(p) = RetrospectiveStatusDiscussing
        /\ result[p] = "InvalidStatus"

\* C9: without multiple votes per item, a CastVote on a card for which an
\* earlier CastVote of the user succeeded, with no RemoveVote for the card
\* since, returns AlreadyExists; one Vote exists for the card and the user,
\* and the card's VoteCount is one above what it was before the first call.
C9_SecondCastRefused ==
    \A p \in Procs :
        ( /\ Returned(p, "CastVote")
          /\ req[p].item \in ItemIds
          /\ prev[p][req[p].item] # -1
          /\ req[p].retro \in DOMAIN retros
          /\ ~retros[req[p].retro].VotingConfig.AllowMultipleVotesPerItem
          /\ items[req[p].item].RetrospectiveID = req[p].retro )
        => /\ result[p] = "AlreadyExists"
           /\ Cardinality(VotesByUserAndItem(req[p].retro, req[p].item,
                                             getUserIDFromContext)) = 1
           /\ items[req[p].item].VoteCount = prev[p][req[p].item] + 1

\* C9 witness: the second CastVote on a card has been refused, and a
\* CastVote on another card succeeded in between.
C9_Witness ==
    \E p \in Procs :
        /\ Returned(p, "CastVote")
        /\ req[p] = [retro |-> "r1", item |-> "i1"]
        /\ prev[p]["i1"] = 0
        /\ prev[p]["i2"] = 0
        /\ result[p] = "AlreadyExists"

\* C10: without multiple votes per item there is never more than one Vote
\* for a (retrospective, item, user) triple, whatever the interleaving of
\* CastVote calls.
C10_OneVotePerTriple ==
    \A r \in DOMAIN retros :
        ~retros[r].VotingConfig.AllowMultipleVotesPerItem
        => \A i \in ItemIds :
              Cardinality(VotesByUserAndItem(r, i, getUserIDFromContext)) <= 1

\* The Votes of a user in a retrospective, and those on one card, among the
\* Vote records vs.
UserVotesIn(vs, r, u) ==
    { v \in DOMAIN vs : vs[v].RetrospectiveID = r /\ vs[v].UserID = u }

CardVotesIn(vs, r, i, u) == { v \in UserVotesIn(vs, r, u) : vs[v].ItemID = i }

\* A CastVote of process p that has returned and that named a card of a
\* stored retrospective open for voting.
ReturnedValidCast(p) ==
    /\ Returned(p, "CastVote")
    /\ req[p].retro \in DOMAIN pre[p].retros
    /\ PreStatus(p) \in {RetrospectiveStatusActive, RetrospectiveStatusVoting}
    /\ req[p].item \in DOMAIN pre[p].items
    /\ pre[p].items[req[p].item].RetrospectiveID = req[p].retro

\* The user held the retrospective's MaxVotesPerUser votes when p's call
\* started.
AtVoteLimit(p) ==
    Cardinality(UserVotesIn(pre[p].votes, req[p].retro, getUserIDFromContext))
        >= pre[p].retros[req[p].retro].VotingConfig.MaxVotesPerUser

\* C11 as stated: a CastVote on a card of a retrospective open for voting,
\* by a user who holds MaxVotesPerUser votes in it, returns
\* VoteLimitExceeded, creates no Vote and changes no VoteCount.
C11_VoteLimitAsStated ==
    \A p \in Procs :
        (ReturnedValidCast(p) /\ AtVoteLimit(p))
        => /\ result[p] = "VoteLimitExceeded"
           /\ votes = pre[p].votes
           /\ items = pre[p].items

\* C11 amended: a CastVote on a card of a retrospective open for voting, by
\* a user who holds MaxVotesPerUser votes in it and who has no vote on the
\* card or may vote on a card more than once, returns VoteLimitExceeded,
\* creates no Vote and changes no VoteCount.
C11_VoteLimit ==
    \A p \in Procs :
        ( /\ ReturnedValidCast(p)
          /\ AtVoteLimit(p)
          /\ \/ pre[p].retros[req[p].retro].VotingConfig
                    .AllowMultipleVotesPerItem
             \/ CardVotesIn(pre[p].votes, req[p].retro, req[p].item,
                            getUserIDFromContext) = {} )
        => /\ result[p] = "VoteLimitExceeded"
           /\ votes = pre[p].votes
           /\ items = pre[p].items

\* C11 witness: with a limit of two votes and two votes cast, the third
\* CastVote has been refused.
C11_Witness ==
    \E p \in Procs :
        /\ ReturnedValidCast(p)
        /\ pre[p].retros[req[p].retro].VotingConfig.MaxVotesPerUser = 2
        /\ Cardinality(UserVotesIn(pre[p].votes, req[p].retro,
                                   getUserIDFromContext)) = 2
        /\ result[p] = "VoteLimitExceeded"
        /\ items[req[p].item].VoteCount > 0

\* C12: the Votes a user holds in a retrospective never number more than
\* the retrospective's MaxVotesPerUser, whatever the interleaving of CastVote
\* and RemoveVote calls.
C12_VotesWithinLimit ==
    \A r \in DOMAIN retros :
        Cardinality(UserVotesIn(votes, r, getUserIDFromContext))
            <= retros[r].VotingConfig.MaxVotesPerUser

\* C13: a CastVote that created its Vote and did not return success (the
\* card was gone when it came to increment the counter) returned NotFound,
\* and the Vote it created is no longer in the store.
C13_RollbackDeletesVote ==
    \A p \in Procs :
        ( /\ pc[p] = "done" /\ op[p] = "CastVote"
          /\ loc[p].vote # 0
          /\ result[p] # "OK" )
        => /\ result[p] = "NotFound"
           /\ loc[p].vote \notin DOMAIN votes

\* C13 witness: a CastVote that found its card, created its Vote and then
\* failed to increment has returned; the card is gone.
C13_Witness ==
    \E p \in Procs :
        /\ pc[p] = "done" /\ op[p] = "CastVote"
        /\ loc[p].vote # 0
        /\ result[p] = "NotFound"
        /\ req[p].item \notin DOMAIN items

\* C14: a CastVote without a retrospective id or an item id returns
\* InvalidArgument; with both, one that names a retrospective not stored
\* returns NotFound; on a retrospective open for voting, one that names a
\* card not stored returns NotFound and one that names a card of another
\* retrospective returns InvalidArgument.  A CastVote that returned
\* InvalidArgument or NotFound left the Votes and every VoteCount as they
\* were.
C14_InvalidCastChangesNothing ==
    \A p \in Procs :
        Returned(p, "CastVote")
        => /\ (req[p].retro = "" \/ req[p].item = "")
                => result[p] = "InvalidArgument"
           /\ ( /\ req[p].retro # "" /\ req[p].item # ""
                /\ req[p].retro \notin DOMAIN pre[p].retros )
                => result[p] = "NotFound"
           /\ ( /\ req[p].retro \in DOMAIN pre[p].retros
                /\ req[p].item # ""
                /\ PreStatus(p) \in {RetrospectiveStatusActive,
                                     RetrospectiveStatusVoting} )
                => /\ req[p].item \notin DOMAIN pre[p].items
                        => result[p] = "NotFound"
                   /\ ( /\ req[p].item \in DOMAIN pre[p].items
                        /\ pre[p].items[req[p].item].RetrospectiveID
                                # req[p].retro )
                        => result[p] = "InvalidArgument"
           /\ result[p] \in {"InvalidArgument", "NotFound"}
                => votes = pre[p].votes /\ items = pre[p].items

\* C14 witness: with a vote standing on a card, a CastVote on a card of
\* another retrospective has been refused.
C14_Witness ==
    \E p \in Procs :
        /\ Returned(p, "CastVote")
        /\ req[p] = [retro |-> "r1", item |-> "i3"]
        /\ result[p] = "InvalidArgument"
        /\ votes # <<>>
        /\ items["i1"].VoteCount = 1

\* C15: a RemoveVote with both ids, by a user who has no Vote for the
\* (retrospective, item) pair, returns NotFound, deletes no Vote and changes
\* no VoteCount.
C15_RemoveWithoutVote ==
    \A p \in Procs :
        ( /\ Returned(p, "RemoveVote")
          /\ req[p].retro # "" /\ req[p].item # ""
          /\ CardVotesIn(pre[p].votes, req[p].retro, req[p].item,
                         getUserIDFromContext) = {} )
        => /\ result[p] = "NotFound"
           /\ votes = pre[p].votes
           /\ items = pre[p].items

\* C15 witness: a RemoveVote for a card the user voted for, under a
\* retrospective id the vote is not for, has been refused.
C15_Witness ==
    \E p \in Procs :
        /\ Returned(p, "RemoveVote")
        /\ req[p] = [retro |-> "r2", item |-> "i1"]
        /\ result[p] = "NotFound"
        /\ items["i1"].VoteCount = 1
        /\ CardVotesIn(votes, "r1", "i1", getUserIDFromContext) # {}

\* A RemoveVote of process p that has returned success, right after a
\* CastVote of p for the same retrospective and card that returned success.
ReturnedCastThenRemove(p) ==
    /\ Returned(p, "RemoveVote") /\ result[p] = "OK"
    /\ prior[p].on
    /\ prior[p].op = "CastVote" /\ prior[p].result = "OK"
    /\ prior[p].req = req[p]

\* C16: after a successful CastVote and then a successful RemoveVote of the
\* same user for the same card, the card's VoteCount is what it was before
\* the CastVote, and GetUserVotes reports the VotesCast and VotesRemaining
\* it would have reported before the CastVote.
C16_CastThenRemoveRestores ==
    \A p \in Procs :
        ReturnedCastThenRemove(p)
        => LET before == GetUserVotes(prior[p].retros, prior[p].votes,
                                      req[p].retro, "")
               after == GetUserVotes(retros, votes, req[p].retro, "")
           IN  /\ items[req[p].item].VoteCount
                    = prior[p].items[req[p].item].VoteCount
               /\ after.kind = "OK" /\ before.kind = "OK"
               /\ after.VotesCast = before.VotesCast
               /\ after.VotesRemaining = before.VotesRemaining

\* C16 witness: the pair has run on a card that already had a vote of the
\* user, who had one vote left.
C16_Witness ==
    \E p \in Procs :
        /\ ReturnedCastThenRemove(p)
        /\ prior[p].items[req[p].item].VoteCount = 1
        /\ GetUserVotes(retros, votes, req[p].retro, "").VotesCast = 1
        /\ GetUserVotes(retros, votes, req[p].retro, "").VotesRemaining = 1

\* C17: the VoteCount of every card is at least 0 in every reachable state;
\* a DecrementVoteCount that finds it at 0 leaves it at 0.
C17_VoteCountNotNegative ==
    \A i \in DOMAIN items : items[i].VoteCount >= 0

\* C17 witness: a RemoveVote has returned after its DecrementVoteCount
\* found the card's count at 0 (the CastVote whose Vote it deleted had not
\* incremented yet).
C17_Witness ==
    \E p \in Procs :
        /\ pc[p] = "done" /\ op[p] = "RemoveVote" /\ result[p] = "OK"
        /\ tally.floored[req[p].item]
        /\ items[req[p].item].VoteCount = 0

\* C18: while no DecrementVoteCount has found a card's count at 0, the
\* card's VoteCount is its initial value plus the IncrementVoteCount calls
\* minus the DecrementVoteCount calls applied to it, whatever the
\* interleaving of the CastVote and RemoveVote calls that made them.
C18_NoLostCounterUpdate ==
    \A i \in DOMAIN items :
        ~tally.floored[i]
        => items[i].VoteCount = 0 + tally.inc[i] - tally.dec[i]

\* C18 witness: two CastVote calls and a RemoveVote have each applied
\* their counter update to the same card while another call was under way,
\* and no decrement found the count at 0.
C18_Witness ==
    /\ tally.inc["i1"] = 2
    /\ tally.dec["i1"] = 1
    /\ ~tally.floored["i1"]
    /\ \E p \in Procs : pc[p] # "done"

\* C19: a CastVote that returned success has broadcast a VoteCast event, and
\* a RemoveVote that returned success a VoteRemoved event, for its
\* retrospective, with the card, the card's new VoteCount and the user.
C19_VoteEventsBroadcast ==
    \A p \in Procs :
        ( /\ pc[p] = "done" /\ op[p] \in {"CastVote", "RemoveVote"}
          /\ result[p] = "OK" )
        => \E k \in 1..Len(broadcastLog) :
              /\ broadcastLog[k].type =
                    (IF op[p] = "CastVote" THEN "VoteCast" ELSE "VoteRemoved")
              /\ broadcastLog[k].retro = req[p].retro
              /\ broadcastLog[k].item = req[p].item
              /\ broadcastLog[k].user = getUserIDFromContext
              /\ broadcastLog[k].newVoteCount = items[req[p].item].VoteCount

\* C20: in a response of GetVoteSummary the rank of a card is 1 plus the
\* number of cards of the retrospective with more votes than it has, in
\* whatever order the store listed the cards: cards with equal counts share
\* a rank and the next count comes after the tie group.
C20_CompetitionRanks ==
    \A p \in Procs :
        ( /\ pc[p] = "done" /\ op[p] = "GetVoteSummary"
          /\ result[p] = "OK" )
        => LET sums == response[p].Summaries
           IN  /\ { sums[k].ItemId : k \in 1..Len(sums) }
                    = { i \in DOMAIN items :
                          items[i].RetrospectiveID = req[p].retro }
               /\ \A k \in 1..Len(sums) :
                     /\ sums[k].VoteCount = items[sums[k].ItemId].VoteCount
                     /\ sums[k].Rank =
                          1 + Cardinality({ i \in DOMAIN items :
                                /\ items[i].RetrospectiveID = req[p].retro
                                /\ items[i].VoteCount > sums[k].VoteCount })

\* C20 witness: counts 5, 5, 3 and 1 have been ranked 1, 1, 3 and 4, from a
\* listing that began with the card with one vote.
C20_Witness ==
    \E p \in Procs :
        /\ pc[p] = "done" /\ op[p] = "GetVoteSummary" /\ result[p] = "OK"
        /\ Len(response[p].Summaries) = 4
        /\ response[p].Summaries[1].VoteCount = 1
        /\ response[p].Summaries[1].Rank = 4
        /\ { <<items[i].VoteCount, i>> : i \in {"i1", "i2", "i3", "i4"} }
              = { <<5, "i1">>, <<5, "i2">>, <<3, "i3">>, <<1, "i4">> }
        /\ \A k \in 1..4 :
              response[p].Summaries[k].Rank =
                (CASE response[p].Summaries[k].VoteCount = 5 -> 1
                   [] response[p].Summaries[k].VoteCount = 3 -> 3
                   [] response[p].Summaries[k].VoteCount = 1 -> 4)
        /\ response[p].TotalVotes = 14

\* The user a returned GetUserVotes of process p was about.
AskedUser(p) ==
    IF req[p].user = "" THEN getUserIDFromContext ELSE req[p].user

\* C21: a GetUserVotes that returns a summary reports as VotesCast the
\* number of Vote records the user holds in the retrospective, as
\* VotesRemaining the retrospective's MaxVotesPerUser less VotesCast or 0 if
\* that is negative, and in VotedItemIds one entry per such vote, naming the
\* vote's card.
C21_UserVotesSummary ==
    \A p \in Procs :
        (Returned(p, "GetUserVotes") /\ result[p] = "OK")
        => LET held == UserVotesIn(votes, req[p].retro, AskedUser(p))
               max == retros[req[p].retro].VotingConfig.MaxVotesPerUser
               ids == response[p].VotedItemIds
           IN  /\ response[p].kind = "OK"
               /\ response[p].UserId = AskedUser(p)
               /\ response[p].VotesCast = Cardinality(held)
               /\ response[p].VotesRemaining >= 0
               /\ response[p].VotesRemaining >= max - Cardinality(held)
               /\ response[p].VotesRemaining \in {0, max - Cardinality(held)}
               /\ DOMAIN ids = { votes[v].ItemID : v \in held }
               /\ \A i \in DOMAIN ids :
                     ids[i] = Cardinality(
                        CardVotesIn(votes, req[p].retro, i, AskedUser(p)))

\* C21 witness: a user with a limit of 2 who holds three votes, two of them
\* on one card, has been told 3 cast, 0 remaining, and the two cards.
C21_Witness ==
    \E p \in Procs :
        /\ Returned(p, "GetUserVotes") /\ result[p] = "OK"
        /\ retros[req[p].retro].VotingConfig.MaxVotesPerUser = 2
        /\ response[p].VotesCast = 3
        /\ response[p].VotesRemaining = 0
        /\ response[p].VotedItemIds = ("i1" :> 2) @@ ("i2" :> 1)

\* The presence record of the caller in the retrospective of p's request.
OwnKey(p) == ParticipantKey(req[p].retro, getUserIDFromContext)

\* The participants of retrospective r flagged online among the records ps.
OnlineIn(ps, r) == { k \in DOMAIN ps : k[1] = r /\ ps[k].IsOnline }

\* C22: a Join for a stored retrospective in which the user has no presence
\* record returns success, leaves a record of the user that is online, and
\* returns as participantCount the number of records of that retrospective
\* that are online.
C22_JoinCreatesOnline ==
    \A p \in Procs :
        (/\ Returned(p, "Join")
         /\ req[p].retro \in DOMAIN pre[p].retros
         /\ OwnKey(p) \notin DOMAIN pre[p].participants)
        => /\ result[p] = "OK"
           /\ OwnKey(p) \in DOMAIN participants
           /\ participants[OwnKey(p)].IsOnline
           /\ response[p].kind = "OK"
           /\ response[p].ParticipantCount
                = Cardinality(OnlineIn(participants, req[p].retro))
           /\ DOMAIN participants
                = DOMAIN pre[p].participants \cup {OwnKey(p)}

\* C22 witness: the user, online in r1, has joined r2 for the first time
\* and has been told one participant.
C22_Witness ==
    \E p \in Procs :
        /\ Returned(p, "Join") /\ result[p] = "OK"
        /\ req[p].retro = "r2"
        /\ OwnKey(p) \notin DOMAIN pre[p].participants
        /\ OnlineIn(pre[p].participants, "r1") # {}
        /\ OnlineIn(participants, "r1") # {}
        /\ response[p].ParticipantCount = 1

\* C23: a Join that finds a presence record of the user in the
\* retrospective leaves the record online with the JoinedAt it had.
C23_JoinKeepsJoinedAt ==
    \A p \in Procs :
        (/\ Returned(p, "Join") /\ result[p] = "OK"
         /\ OwnKey(p) \in DOMAIN pre[p].participants)
        => /\ participants[OwnKey(p)].IsOnline
           /\ participants[OwnKey(p)].JoinedAt
                = pre[p].participants[OwnKey(p)].JoinedAt

\* A Leave of process p that has returned, right after a Leave of p for the
\* same retrospective that returned success.
ReturnedSecondLeave(p) ==
    /\ Returned(p, "Leave")
    /\ req[p].retro # ""
    /\ prior[p].on
    /\ prior[p].op = "Leave" /\ prior[p].result = "OK"
    /\ prior[p].req = req[p]

\* C24: a Leave leaves the user's presence record in place and offline; a
\* second Leave right after it returns success and changes no presence
\* record and no ParticipantCount.
C24_SecondLeaveNoOp ==
    \A p \in Procs :
        /\ (/\ Returned(p, "Leave") /\ req[p].retro # "")
           => /\ result[p] = "OK"
              /\ DOMAIN participants = DOMAIN pre[p].participants
              /\ OwnKey(p) \in DOMAIN participants
                    => ~participants[OwnKey(p)].IsOnline
        /\ ReturnedSecondLeave(p)
           => /\ result[p] = "OK"
              /\ participants = pre[p].participants
              /\ \A r \in DOMAIN retros :
                    retros[r].ParticipantCount
                      = pre[p].retros[r].ParticipantCount

\* C25: a Heartbeat for a retrospective in which the user has a presence
\* record returns success and leaves that record online with LastActive the
\* time of the call, and nothing else changed; a Heartbeat that finds no
\* record of the user returns success and changes no state.
C25_Heartbeat ==
    \A p \in Procs :
        (Returned(p, "Heartbeat") /\ req[p].retro # "")
        => /\ result[p] = "OK"
           /\ retros = pre[p].retros
           /\ broadcastLog = pre[p].log
           /\ IF OwnKey(p) \in DOMAIN pre[p].participants
              THEN participants =
                     [pre[p].participants EXCEPT ![OwnKey(p)] =
                        [@ EXCEPT !.LastActive = pre[p].now,
                                  !.IsOnline = TRUE]]
              ELSE participants = pre[p].participants

\* C25 witness: a Heartbeat has brought a user who had left back online,
\* with a later LastActive and the JoinedAt the record had.
C25_Witness ==
    \E p \in Procs :
        /\ Returned(p, "Heartbeat") /\ result[p] = "OK"
        /\ OwnKey(p) \in DOMAIN pre[p].participants
        /\ ~pre[p].participants[OwnKey(p)].IsOnline
        /\ pre[p].participants[OwnKey(p)].LastActive = 1
        /\ participants[OwnKey(p)].IsOnline
        /\ participants[OwnKey(p)].LastActive = 2
        /\ participants[OwnKey(p)].JoinedAt = 1

\* C26: whenever no presence call is running, the ParticipantCount stored
\* with each retrospective is the number of its presence records that are
\* online, and every ParticipantJoined and ParticipantLeft event carries the
\* count its call stored.
C26_CountIsOnlineCount ==
    (\A p \in Procs : pc[p] = "done")
    => /\ \A r \in DOMAIN retros :
             retros[r].ParticipantCount
               = Cardinality(OnlineIn(participants, r))
       /\ \A p \in Procs :
             (Returned(p, "Join") \/ Returned(p, "Leave"))
             /\ result[p] = "OK" /\ req[p].retro \in DOMAIN retros
             => /\ Len(broadcastLog) = Len(pre[p].log) + 1
                /\ broadcastLog[Len(broadcastLog)].retro = req[p].retro
                /\ broadcastLog[Len(broadcastLog)].count
                     = retros[req[p].retro].ParticipantCount

\* Everything ever put on the channel of stream c, in the order it was put
\* there: what the stream has taken off, then what is still queued.
Received(c) == chans[c].got \o chans[c].queue

\* The elements of a sequence.
Range(f) == { f[k] : k \in DOMAIN f }

\* The events whose Broadcast has returned.
Completed == (1..Len(broadcastLog)) \ InFlight

\* The streams registered for retrospective r: their Subscribe has
\* returned and their Unsubscribe has not.
Registered(r) ==
    { c \in DOMAIN chans :
        chans[c].pc \in {"recv", "unsub"} /\ chans[c].retro = r }

\* C27: a Broadcast for retrospective R that has returned has put its event
\* on the channel of every subscriber registered for R during the call
\* whose queue had room, and on the channel of no stream that subscribed to
\* another retrospective id or was not registered.
C27_FanOut ==
    \A c \in DOMAIN chans :
        LET received == Range(Received(c))
        IN  \A e \in Completed :
               /\ (c \in Range(broadcastLog[e].subs)
                       /\ c \notin broadcastLog[e].full)
                  => e \in received
               /\ e \in received
                  => /\ chans[c].retro = broadcastLog[e].retro
                     /\ c \in Range(broadcastLog[e].subs)

\* C27 witness: with one subscriber on r1 and one on r2, an event published
\* for r1 has reached the first and not the second.
C27_Witness ==
    \E e \in Completed :
        /\ broadcastLog[e].retro = "r1"
        /\ \E c, d \in DOMAIN chans :
              /\ c \in Registered("r1") /\ d \in Registered("r2")
              /\ e \in Range(Received(c))
              /\ e \notin Range(Received(d))
              /\ Len(broadcastLog) = e

\* C28: once the Unsubscribe of a stream has returned, the stream's channel
\* is on no subscriber list, every stream still registered for a
\* retrospective is on that retrospective's list exactly once and nowhere
\* else, and the channel holds no event published after the Unsubscribe
\* returned.
C28_Unsubscribed ==
    /\ \A r \in DOMAIN subscribers :
          /\ Range(subscribers[r]) = Registered(r)
          /\ Len(subscribers[r]) = Cardinality(Registered(r))
    /\ \A c \in DOMAIN chans :
          /\ chans[c].pc \in {"recv", "unsub"}
             => chans[c].retro \in DOMAIN subscribers
          /\ chans[c].closed
             => /\ chans[c].pc = "ended"
                /\ \A e \in Range(Received(c)) : e <= chans[c].stamp

\* C28 witness: of two subscribers of r1 one has unsubscribed, and an event
\* published for r1 after that has reached the other one only.
C28_Witness ==
    \E c, d \in DOMAIN chans :
        /\ chans[c].closed /\ chans[c].retro = "r1"
        /\ subscribers["r1"] = <<d>>
        /\ \E e \in Completed :
              /\ e > chans[c].stamp
              /\ broadcastLog[e].retro = "r1"
              /\ e \in Range(Received(d))
              /\ e \notin Range(Received(c))

\* C29: a Broadcast in its loop can always take its next step, whatever the
\* queues hold; a Broadcast that has returned has dropped its event for the
\* subscribers whose queue was full and for no other subscriber, and it
\* has made as many passes as there are subscribers.
C29_NeverBlocks ==
    /\ \A p \in Procs :
          pc[p] = "bc_send"
          => /\ ENABLED (BroadcastSend(p) \/ BroadcastReturn(p))
             /\ loc[p].k <= Len(SubscribersOf(loc[p].retro)) + 1
    /\ \A c \in DOMAIN chans :
          LET received == Range(Received(c))
          IN  \A e \in Completed :
                 c \in Range(broadcastLog[e].subs)
                 => (e \in received <=> c \notin broadcastLog[e].full)
    /\ \A c \in DOMAIN chans :
          Len(chans[c].queue) <= SubscriberQueueCapacity

\* C29 witness: a Broadcast has returned that found the queue of one
\* subscriber full, with SubscriberQueueCapacity events still in it, and
\* whose event has reached the other subscriber.
C29_Witness ==
    \E e \in Completed :
        /\ broadcastLog[e].full = {SlowStream}
        /\ Len(chans[SlowStream].queue) = SubscriberQueueCapacity
        /\ e \notin Range(Received(SlowStream))
        /\ e \in Range(Received(FastStream))
        /\ \A p \in Procs : pc[p] = "done"

\* Broadcast a returned before Broadcast b was called.
ReturnedBefore(a, b) == a < b /\ a \notin broadcastLog[b].open

\* C30: what a stream has taken off its channel are events published to its
\* retrospective, each at most once, and if the Broadcast of one returned
\* before the Broadcast of another was called, the stream took the former
\* first.
C30_SubscriberOrder ==
    \A c \in DOMAIN chans :
        LET got == chans[c].got
        IN  /\ \A k \in 1..Len(got) :
                  /\ got[k] \in 1..Len(broadcastLog)
                  /\ broadcastLog[got[k]].retro = chans[c].retro
            /\ \A i, j \in 1..Len(got) :
                  i < j => /\ got[i] # got[j]
                           /\ ~ReturnedBefore(got[j], got[i])

\* C30 witness: a stream has taken two events off its channel, the first
\* published by a Broadcast that had returned before the second was called.
C30_Witness ==
    \E c \in DOMAIN chans :
        /\ Len(chans[c].got) = 2
        /\ ReturnedBefore(chans[c].got[1], chans[c].got[2])

\* The channel the Broadcast of process p sends on next, if its loop is
\* not over.
SendTargets(p) ==
    IF pc[p] = "bc_send" /\ loc[p].k <= Len(SubscribersOf(loc[p].retro))
    THEN {SubscribersOf(loc[p].retro)[loc[p].k]}
    ELSE {}

\* C31: under any interleaving of Subscribe, Unsubscribe and Broadcast,
\* with Unsubscribe called again for a handle and a stream's deferred
\* Unsubscribe after its channel was closed, no channel is closed twice and
\* no Broadcast sends on a closed channel.
C31_NoDoubleCloseNoSendOnClosed ==
    /\ \A c \in DOMAIN chans : chans[c].closes <= 1
    /\ \A p \in Procs : \A c \in SendTargets(p) : ~chans[c].closed

\* A stream found its channel closed by another goroutine's Unsubscribe,
\* returned through its own deferred Unsubscribe, and a Broadcast is
\* sending to a stream that is still subscribed.
C31_Witness ==
    \E c \in DOMAIN chans :
        /\ chans[c].pc = "ended"
        /\ chans[c].result = "nil"
        /\ chans[c].closes = 1
        /\ \E p \in Procs : SendTargets(p) # {}

\* Stream c has a channel that is on the list of some retrospective.
InRegistry(c) ==
    \E r \in DOMAIN subscribers : IsSubscribed(r, c)

\* Stream c's handler has left its receive loop: the context was
\* cancelled, a send to the client failed, or its channel was found
\* closed.
StreamEnding(c) == chans[c].pc = "unsub"

\* Stream c's handler, which had subscribed, has returned.
StreamReturned(c) == chans[c].pc = "ended" /\ chans[c].retro # ""

\* C32: a subscriber stream that ends, for whichever reason, gets to
\* return, and once its handler has returned the registry holds no entry
\* for its channel.
C32_StreamEndUnregisters ==
    \A c \in EndingStreams :
        /\ StreamEnding(c) ~> StreamReturned(c)
        /\ [](StreamReturned(c) => ~InRegistry(c))

\* One handler has returned after its channel was closed by another
\* goroutine, another after its context was cancelled or a send failed,
\* while events had been published to both.
C32_Witness ==
    \E c, d \in EndingStreams :
        /\ StreamReturned(c) /\ chans[c].result = "nil"
        /\ StreamReturned(d) /\ chans[d].result # "nil"
        /\ chans[c].got # <<>>
        /\ chans[d].got # <<>>

\* The synchronous operations.
SyncOps ==
    {"CastVote", "RemoveVote", "GetVoteSummary", "GetUserVotes", "Join",
     "Leave", "Heartbeat", "GetParticipants", "StartVoting",
     "StartDiscussion", "Complete"}

\* Process p has returned from a synchronous operation called with an
\* empty retrospective id.
ReturnedEmptyId(p) ==
    /\ pc[p] = "done"
    /\ pre[p].on
    /\ op[p] \in SyncOps
    /\ req[p].retro = ""

\* The stores and the published events are as process p found them.
NothingMutated(p) ==
    /\ retros = pre[p].retros
    /\ items = pre[p].items
    /\ votes = pre[p].votes
    /\ broadcastLog = pre[p].log
    /\ participants = pre[p].participants

\* C33: every synchronous operation called with an empty retrospective id
\* fails with InvalidArgument and mutates nothing.
C33_EmptyIdInvalidArgument ==
    \A p \in Procs :
        ReturnedEmptyId(p) =>
            /\ result[p] = "InvalidArgument"
            /\ NothingMutated(p)

\* The cards that exist for retrospective r.
ItemsOf(r) == { i \in DOMAIN items : items[i].RetrospectiveID = r }

\* No item Create or Delete call is in progress.
ItemCallsCompleted == \A p \in Procs : pc[p] = "done"

\* C34: once a set of concurrent item Create and Delete calls on a
\* retrospective has completed, the retrospective's ItemCount is the
\* number of cards that exist for it, and is not negative.
C34_ItemCountIsItemNumber ==
    ItemCallsCompleted =>
        \A r \in DOMAIN retros :
            /\ retros[r].ItemCount = Cardinality(ItemsOf(r))
            /\ retros[r].ItemCount >= 0

\* The Vote records that reference card i.
VotesOn(i) == { v \in DOMAIN votes : votes[v].ItemID = i }

\* No CastVote or RemoveVote call is in progress.
VoteCallsCompleted == \A p \in Procs : pc[p] = "done"

\* C35: whenever no CastVote or RemoveVote call is in progress, every
\* existing card's VoteCount is the number of Vote records that reference
\* the card, whatever the interleaving of the concurrent calls before.
C35_VoteCountIsVoteNumber ==
    VoteCallsCompleted =>
        \A i \in DOMAIN items :
            items[i].VoteCount = Cardinality(VotesOn(i))

\* C36: starting from the retrospectives Create stores, no Create, Update,
\* StartVoting, StartDiscussion or Complete call puts a retrospective in
\* status ACTIVE: a stored retrospective is in DRAFT, VOTING, DISCUSSING or
\* COMPLETED.
C36_NeverActive ==
    \A r \in DOMAIN retros :
        retros[r].Status \in {RetrospectiveStatusDraft,
                              RetrospectiveStatusVoting,
                              RetrospectiveStatusDiscussing,
                              RetrospectiveStatusCompleted}

\* An Update whose request carried ACTIVE has returned success on a
\* retrospective that went on to DISCUSSING.
C36_Witness ==
    \E p \in Procs :
        /\ pc[p] = "done" /\ op[p] = "Update" /\ result[p] = "OK"
        /\ req[p].status = RetrospectiveStatusActive
        /\ retros[req[p].retro].Status = RetrospectiveStatusDiscussing

\* The number of places channel c has on the list of retrospective r.
Occurrences(r, c) ==
    Cardinality({ i \in DOMAIN SubscribersOf(r) : SubscribersOf(r)[i] = c })

\* C37: in every reachable state of the hub, every channel in the
\* registry is open and is there once, and no subscriber's channel holds
\* more than 100 pending events.
C37_RegistryOpenOnceBounded ==
    /\ \A r \in DOMAIN subscribers : \A c \in DOMAIN chans :
           IsSubscribed(r, c) =>
               /\ ~chans[c].closed
               /\ Occurrences(r, c) = 1
               /\ \A q \in DOMAIN subscribers :
                      IsSubscribed(q, c) => q = r
    /\ \A c \in DOMAIN chans :
           Len(chans[c].queue) <= SubscriberQueueCapacity

\* A Broadcast has found the channel of one subscriber holding 100
\* events and dropped its event there; another stream has subscribed and
\* its channel was closed by an Unsubscribe from outside.
C37_Witness ==
    /\ \E c \in DOMAIN chans :
           /\ Len(chans[c].queue) = SubscriberQueueCapacity
           /\ InRegistry(c)
           /\ \E e \in DOMAIN broadcastLog : c \in broadcastLog[e].full
    /\ chans[LateStream].closed
    /\ chans[LateStream].pc = "recv"

\* The events both stream c and stream d have taken off their channels.
BothGot(c, d) == Range(chans[c].got) \cap Range(chans[d].got)

\* Stream c took event a off its channel before event b.
GotBefore(c, a, b) ==
    \E i, j \in DOMAIN chans[c].got :
        i < j /\ chans[c].got[i] = a /\ chans[c].got[j] = b

\* Two streams subscribed to the same retrospective.
SameRetrospective(c, d) ==
    c # d /\ chans[c].retro # "" /\ chans[c].retro = chans[d].retro

\* C38 as stated: two subscribers of a retrospective receive any two
\* events that both receive in the same relative order, also when the
\* Broadcast calls that published them ran concurrently.
C38_SameOrderAsStated ==
    \A c, d \in DOMAIN chans :
        SameRetrospective(c, d) =>
            \A a, b \in BothGot(c, d) :
                GotBefore(c, a, b) => GotBefore(d, a, b)

\* C38: two subscribers of a retrospective receive two events that both
\* receive in the same relative order when the Broadcast call of one had
\* returned before the Broadcast call of the other started; two events
\* whose Broadcast calls overlapped are not ordered.
C38_SameOrder ==
    \A c, d \in DOMAIN chans :
        SameRetrospective(c, d) =>
            \A a, b \in BothGot(c, d) :
                (ReturnedBefore(a, b) \/ ReturnedBefore(b, a))
                => (GotBefore(c, a, b) <=> GotBefore(d, a, b))

\* Two subscribers of a retrospective have both taken off their channels
\* two events published by Broadcast calls that did not overlap.
C38_Witness ==
    \E c, d \in DOMAIN chans :
        /\ SameRetrospective(c, d)
        /\ \E a, b \in BothGot(c, d) :
               /\ ReturnedBefore(a, b)
               /\ GotBefore(c, a, b)
               /\ GotBefore(d, a, b)

\* C39: in the browser's store, after any sequence of setParticipants and
\* handleEvent calls with participantJoined / participantLeft events, the
\* participants list holds at most one entry per userId: a participantJoined
\* event for a user already listed adds no second entry.
C39_OneEntryPerUser ==
    \A i, j \in 1..Len(client.participants) :
        client.participants[i].userId = client.participants[j].userId
            => i = j

\* C40: whenever the store holds a userVotes summary, the votes left that
\* the VotingStatus component computes are userVotes.votesRemaining, for
\* every value from 0 to maxVotesPerUser: 0 exactly when all votes are used.
C40_RemainingAsStored ==
    (client.userVotes # null /\ VotingStatus(client) # null)
        => VotingStatus(client).votesRemaining
               = client.userVotes.votesRemaining

====
